---------------------------- MODULE Spec2Model ----------------------------
(***************************************************************************)
(* Model of the RainforestSpectrogram component                            *)
(* (src/src/components/RainforestSpectrogram.tsx): the audio effect        *)
(* (engine, gesture gate, asset load), the mute toggle, the scene effect   *)
(* (history texture, render loop) and the two effect cleanups; and of the  *)
(* asset load of the contour variant of the component                     *)
(* (src/unnamed/part_003).                                                 *)
(*                                                                         *)
(* Numbers.  JavaScript computes in floating point; the model computes in  *)
(* fixed point.  Values of [0,1] are integers in hundredths, byte values   *)
(* of the analyser's smoothing buffer are in hundredths of a byte, samples *)
(* are in halves of full scale, window and twiddle factors are in tenths.  *)
(* The sizes of the source (256 bins, 256 rows, a 2048 sample window) are  *)
(* scaled down; the relation FREQUENCY_BINS <= fftSize / 2 of the source   *)
(* is kept.  The clock is performance.now() in whole milliseconds.         *)
(***************************************************************************)
EXTENDS Integers, Sequences, FiniteSets, TLC

(* ------------------------------ sizes --------------------------------- *)

\* 256 in the source
FREQUENCY_BINS == 3

\* 256 in the source
HISTORY_LENGTH == 3

ROW_BYTE_SIZE == FREQUENCY_BINS * 4

\* 2048 in the source; 8 keeps the twiddle table below small
fftSize == 8

MIN_DECIBELS == -90

MAX_DECIBELS == -15

\* 0.15, in hundredths
SMOOTHING_CONSTANT == 15

LOW_FREQUENCY_CUTOFF_HZ == 200

\* in hundredths
FREQUENCY_SMOOTH_KERNEL == <<3, 8, 15, 18, 15, 8, 3>>

\* 0.9, in hundredths
FREQUENCY_SMOOTH_MIX == 90

\* 0.7, in hundredths
TEMPORAL_SMOOTHING == 70

\* performance.now() / 1000: milliseconds in a second
MS_PER_SECOND == 1000

\* SMOOTHING_CONSTANT of the 64-bin variant: 0.85, in hundredths
VARIANT_SMOOTHING_CONSTANT == 85

\* The contour variant, at the model's scale: layers per window, time slices
\* per layer, frequency bins per slice, the longest and the shortest segment
\* handed to the spectrum (WINDOW_SIZE; the literal 64), the frequency range
\* in Hz, the length of the rolling window, the period of the analysis timer
\* and the length of a blend in milliseconds, and the smallest advance of the
\* window in samples (the literal 1024).
SURFACE_COUNT == 2
TIME_SLICES == 2
FREQ_BINS == 2
WINDOW_SIZE == 8
MIN_SEGMENT_LENGTH == 4
MIN_FREQ == 125
MAX_FREQ == 500
WINDOW_DURATION_MS == 8
FRAME_INTERVAL_MS == 3
BLEND_DURATION_MS == 10
MIN_STEP_SAMPLES == 2

(* ------------------------------ bounds -------------------------------- *)

\* render ticks (the one at mount included) a behaviour may take
MaxTicks == 4

\* the largest clock reading, in milliseconds
MaxClock == 12

\* resume() promises that may be pending at once
MaxPending == 2

\* the largest clock reading of the contour variant, in milliseconds
MaxContourClock == 14

\* milliseconds between two render ticks
TickSteps == {1, 4}

\* milliseconds between the last render tick and a start of the audio source
StartDelays == {0, 1}

(* --------------------------- the audio asset --------------------------- *)

\* What decodeAudioData can deliver: a sample rate in Hz and the first
\* channel, in halves of full scale.
Assets ==
  << [sampleRate |-> 1000, samples |-> <<0, 1, 2, 1, 0, -1, -2, -1, 0, 1, 2, 0>>],
     [sampleRate |-> 2000, samples |-> <<2, -2, 1, -1, 2, 0, -2, 1, 0, 0>>] >>

AssetIds == 1..Len(Assets)

\* buffer.length
BufferLength(b) == Len(Assets[b].samples)

\* buffer.duration, in milliseconds
BufferDuration(b) == (BufferLength(b) * MS_PER_SECOND) \div Assets[b].sampleRate

\* channelData[i] with i counted from 0; a read outside the array gives
\* undefined in JavaScript, which the arithmetic that follows turns to NaN and
\* the typed-array store to 0
ChannelData(b, i) ==
  IF i \in 0..(BufferLength(b) - 1) THEN Assets[b].samples[i + 1] ELSE 0

(* ----------------------------- arithmetic ------------------------------ *)

Min(a, b) == IF a < b THEN a ELSE b

Max(a, b) == IF a > b THEN a ELSE b

\* Math.ceil(a / b) for a >= 0, b > 0
CeilDiv(a, b) == (a + b - 1) \div b

RECURSIVE SumTo(_, _)
\* f[1] + ... + f[n]
SumTo(f, n) == IF n = 0 THEN 0 ELSE f[n] + SumTo(f, n - 1)

RECURSIVE Tabulate(_, _)
\* the sequence f[1], ..., f[n]
Tabulate(f, n) == IF n = 0 THEN <<>> ELSE Append(Tabulate(f, n - 1), f[n])

RECURSIVE FloorLog2(_)
\* the largest e with 2^e <= p, for p >= 1
FloorLog2(p) == IF p < 2 THEN 0 ELSE 1 + FloorLog2(p \div 2)

\* 100 * log2(p) for p >= 1, linear between the powers of two
Log2x100(p) ==
  LET e == FloorLog2(p)
  IN  100 * e + ((p - 2^e) * 100) \div (2^e)

\* the Hann window 0.5 * (1 - cos(2 pi n / (fftSize - 1))), n = 0..7, in tenths
HannWindow == <<0, 2, 6, 10, 10, 6, 2, 0>>

\* cos(2 pi j / fftSize), j = 0..7, in tenths
CosTable == <<10, 7, 0, -7, -10, -7, 0, 7>>

\* sin(2 pi j / fftSize), j = 0..7, in tenths
SinTable == <<0, 7, 10, 7, 0, -7, -10, -7>>

\* Math.pow(b / 255, 0.7) for a byte b, in hundredths
Pow07Table ==
  <<   0,   2,   3,   4,   5,   6,   7,   8,   9,  10,  10,  11,  12,  12,  13,  14,
      14,  15,  16,  16,  17,  17,  18,  19,  19,  20,  20,  21,  21,  22,  22,  23,
      23,  24,  24,  25,  25,  26,  26,  27,  27,  28,  28,  29,  29,  30,  30,  31,
      31,  32,  32,  32,  33,  33,  34,  34,  35,  35,  35,  36,  36,  37,  37,  38,
      38,  38,  39,  39,  40,  40,  40,  41,  41,  42,  42,  42,  43,  43,  44,  44,
      44,  45,  45,  46,  46,  46,  47,  47,  47,  48,  48,  49,  49,  49,  50,  50,
      50,  51,  51,  52,  52,  52,  53,  53,  53,  54,  54,  54,  55,  55,  56,  56,
      56,  57,  57,  57,  58,  58,  58,  59,  59,  59,  60,  60,  60,  61,  61,  61,
      62,  62,  62,  63,  63,  63,  64,  64,  64,  65,  65,  65,  66,  66,  66,  67,
      67,  67,  68,  68,  68,  69,  69,  69,  70,  70,  70,  71,  71,  71,  72,  72,
      72,  72,  73,  73,  73,  74,  74,  74,  75,  75,  75,  76,  76,  76,  77,  77,
      77,  77,  78,  78,  78,  79,  79,  79,  80,  80,  80,  80,  81,  81,  81,  82,
      82,  82,  83,  83,  83,  83,  84,  84,  84,  85,  85,  85,  86,  86,  86,  86,
      87,  87,  87,  88,  88,  88,  88,  89,  89,  89,  90,  90,  90,  90,  91,  91,
      91,  92,  92,  92,  92,  93,  93,  93,  94,  94,  94,  94,  95,  95,  95,  96,
      96,  96,  96,  97,  97,  97,  98,  98,  98,  98,  99,  99,  99,  99, 100, 100 >>

\* Math.pow(x, 0.9) for x in hundredths, in hundredths
Pow09Table ==
  <<   0,   2,   3,   4,   6,   7,   8,   9,  10,  11,  13,  14,  15,  16,  17,  18,
      19,  20,  21,  22,  23,  25,  26,  27,  28,  29,  30,  31,  32,  33,  34,  35,
      36,  37,  38,  39,  40,  41,  42,  43,  44,  45,  46,  47,  48,  49,  50,  51,
      52,  53,  54,  55,  56,  56,  57,  58,  59,  60,  61,  62,  63,  64,  65,  66,
      67,  68,  69,  70,  71,  72,  73,  73,  74,  75,  76,  77,  78,  79,  80,  81,
      82,  83,  84,  85,  85,  86,  87,  88,  89,  90,  91,  92,  93,  94,  95,  95,
      96,  97,  98,  99, 100 >>

\* Math.pow(magnitude / 255, 0.7), in hundredths
Pow07(magnitude) == Pow07Table[Min(Max(magnitude, 0), 255) + 1]

\* Math.pow(x, 0.9), in hundredths; beyond 1 the model follows the identity
Pow09(x) == IF x \in 0..100 THEN Pow09Table[x + 1] ELSE x

\* the store of a number into a Uint8Array: truncated, modulo 256
ToUint8(x) == x % 256

\* The byte value of one bin before smoothing, in hundredths of a byte, from
\* the squared magnitude p = real^2 + imag^2 of the windowed transform.  The
\* sums are in units of 1/(2 * 10 * 10), so magnitude / fftSize is
\* sqrt(p) / 1600 and db = 10 log10(p) - 64.08; 10 log10(p) = 3.01 log2(p).
\* With p = 0 the epsilon 1e-10 gives -200 dB, which clamps to 0.
ByteValueOf(p) ==
  IF p = 0 THEN 0
  ELSE LET db100 == (301 * Log2x100(p)) \div 100 - 6408
           byteValue == ((db100 - 100 * MIN_DECIBELS) * 255) \div (MAX_DECIBELS - MIN_DECIBELS)
       IN  Max(0, Min(255 * 100, byteValue))

(* ------------------------------ the state ------------------------------ *)

\* c:   the refs and closure variables of the mounted component, with the
\*      position of its asynchronous load and the number of its pending
\*      resume() promises
\* q:   the same component in a run that sees the same clock readings, the
\*      same load steps and the same unmount, and no gesture, no mute toggle
\*      and no engine resume
\* now: the last reading of performance.now() taken by a render tick, in ms
\* variant: the analysis pipeline of the 64-bin variant of the component
\*      (src/unnamed/part_002), given the clock readings and the asset
\*      that c is given
\* contour: the contour variant of the component: its payload state, the
\*      cancelled flag of its load effect and the position of its load
VARIABLES c, q, now, contour, variant, view

vars == <<c, q, now, contour, variant, view>>

\* a ref that holds no array (null)
NoArray == <<>>

userGestureEvents == {"click", "touchstart", "keydown", "mousedown"}

\* n zeros: new Uint8Array(n), new Float32Array(n)
Zeros(n) == Tabulate([i \in 1..n |-> 0], n)

(* -------------------------- computeFrequencyData ----------------------- *)

\* an offset that steps back by one duration at most
VirtualOffsetWrappedOnce(time, duration) ==
  IF time >= duration THEN time - duration ELSE time

\* offset = time % duration (lines 175-177), the position of the virtual
\* clock in the asset; time and duration in milliseconds
VirtualOffset(time, duration) == time % duration

\* Math.floor(offset * sampleRate) with offset = time % duration
StartIndex(b, t) ==
  (VirtualOffset(t, BufferDuration(b)) * Assets[b].sampleRate) \div MS_PER_SECOND

\* a check of the start of the window only
WindowRefusedAtStartOnly(startIndex, length) == startIndex >= length

\* the safety check: the window is refused (line 190)
WindowRefused(startIndex, length) == startIndex + fftSize >= length

\* real and imag of bin k over the window at startIndex (lines 206-219)
RealPart(b, startIndex, k) ==
  SumTo([n \in 1..fftSize |->
           ChannelData(b, startIndex + n - 1) * HannWindow[n]
             * CosTable[((k * (n - 1)) % fftSize) + 1]], fftSize)

ImagPart(b, startIndex, k) ==
  0 - SumTo([n \in 1..fftSize |->
           ChannelData(b, startIndex + n - 1) * HannWindow[n]
             * SinTable[((k * (n - 1)) % fftSize) + 1]], fftSize)

\* byteValue of bin k, in hundredths of a byte (lines 222-233)
ByteValue(b, startIndex, k) ==
  LET real == RealPart(b, startIndex, k)
      imag == ImagPart(b, startIndex, k)
  IN  ByteValueOf(real * real + imag * imag)

\* a cutoff bin rounded down instead of up
CutoffBinRoundedDown(b, binCount) ==
  Min(binCount, (LOW_FREQUENCY_CUTOFF_HZ * fftSize) \div Assets[b].sampleRate)

\* cutoffBin (lines 194-198)
CutoffBin(b, binCount) ==
  Min(binCount, CeilDiv(LOW_FREQUENCY_CUTOFF_HZ * fftSize, Assets[b].sampleRate))

\* prevData[k] * SMOOTHING_CONSTANT + byteValue * (1 - SMOOTHING_CONSTANT)
SmoothedValue(prev, byteValue) ==
  (prev * SMOOTHING_CONSTANT + byteValue * (100 - SMOOTHING_CONSTANT)) \div 100

\* computeFrequencyData(buffer, targetArray) at clock reading t; the target
\* is s.dataArray, bins are counted from 0 in the source and from 1 here
computeFrequencyData(s, t) ==
  LET b == s.audioBuffer
      startIndex == StartIndex(b, t)
      prevData == IF s.prevFrequencyData = NoArray
                    THEN Zeros(Len(s.dataArray)) ELSE s.prevFrequencyData
  IN  IF WindowRefused(startIndex, BufferLength(b))
        THEN [s EXCEPT !.prevFrequencyData = prevData,
                       !.lastAnalysis = "skipped",
                       !.readIdx = {}]
        ELSE
          LET binCount == Min(FREQUENCY_BINS, Len(s.dataArray))
              cutoffBin == CutoffBin(b, binCount)
              newPrev == Tabulate([k \in 1..Len(prevData) |->
                            IF k - 1 < cutoffBin THEN 0
                            ELSE IF k - 1 < binCount
                              THEN SmoothedValue(prevData[k], ByteValue(b, startIndex, k - 1))
                              ELSE prevData[k]], Len(prevData))
          IN  [s EXCEPT !.prevFrequencyData = newPrev,
                        !.dataArray = Tabulate([k \in 1..Len(s.dataArray) |->
                                         IF k - 1 < cutoffBin THEN 0
                                         ELSE IF k - 1 < binCount
                                           THEN ToUint8(newPrev[k] \div 100)
                                           ELSE s.dataArray[k]], Len(s.dataArray)),
                        !.lastAnalysis = "analysed",
                        !.readIdx = IF cutoffBin < binCount
                                      THEN {startIndex + n : n \in 0..(fftSize - 1)}
                                      ELSE {}]

(* ---------------------------- updateSpectrogram ------------------------ *)

\* TypedArray.prototype.copyWithin(target, start, end), offsets from 0
CopyWithin(data, target, start, end) ==
  LET count == Min(end - start, Len(data) - target)
  IN  [j \in 1..Len(data) |->
         IF j - 1 >= target /\ j - 1 < target + count
           THEN data[start + (j - 1) - target + 1]
           ELSE data[j]]

\* normalizedBins (lines 273-276), in hundredths
NormalizedBins(dataArray) ==
  LET usableBins == Min(FREQUENCY_BINS, Len(dataArray))
  IN  Tabulate([i \in 1..FREQUENCY_BINS |->
                  Pow07(IF i - 1 < usableBins THEN dataArray[i] ELSE 0)],
               FREQUENCY_BINS)

\* a tap that wraps around the ends of the frame instead of stopping at them
TapIndexWrapped(i, k) ==
  LET kernelRadius == Len(FREQUENCY_SMOOTH_KERNEL) \div 2
  IN  (i + (k - kernelRadius) + Len(FREQUENCY_SMOOTH_KERNEL) * FREQUENCY_BINS)
        % FREQUENCY_BINS

\* the bin a kernel tap reads, clamped to the edges (lines 285-287), from 0
TapIndex(i, k) ==
  LET kernelRadius == Len(FREQUENCY_SMOOTH_KERNEL) \div 2
      index == i + (k - kernelRadius)
  IN  IF index < 0 THEN 0
      ELSE IF index >= FREQUENCY_BINS THEN FREQUENCY_BINS - 1 ELSE index

\* smoothed (lines 283-289) of bin i (from 0), in ten-thousandths
KernelSmoothed(normalizedBins, i) ==
  SumTo([k \in 1..Len(FREQUENCY_SMOOTH_KERNEL) |->
           normalizedBins[TapIndex(i, k - 1) + 1] * FREQUENCY_SMOOTH_KERNEL[k]],
        Len(FREQUENCY_SMOOTH_KERNEL))

\* blendedFreq (lines 291-293) of bin i (from 0), in hundredths
BlendedFreq(normalizedBins, i) ==
  (normalizedBins[i + 1] * (100 - FREQUENCY_SMOOTH_MIX) * 100
     + KernelSmoothed(normalizedBins, i) * FREQUENCY_SMOOTH_MIX) \div 10000

\* a temporal filter that subtracts the weighted new value from the weighted
\* previous one
FinalValueDifference(hasPrevRow, prev, blendedFreq) ==
  IF hasPrevRow
    THEN (prev * TEMPORAL_SMOOTHING - blendedFreq * (100 - TEMPORAL_SMOOTHING)) \div 100
    ELSE blendedFreq

\* a temporal filter that blends with the row buffer on the first tick too
FinalValueNoBypass(hasPrevRow, prev, blendedFreq) ==
  (prev * TEMPORAL_SMOOTHING + blendedFreq * (100 - TEMPORAL_SMOOTHING)) \div 100

\* finalValue (lines 295-298), in hundredths
FinalValue(hasPrevRow, prev, blendedFreq) ==
  IF hasPrevRow
    THEN (prev * TEMPORAL_SMOOTHING + blendedFreq * (100 - TEMPORAL_SMOOTHING)) \div 100
    ELSE blendedFreq

\* a pixel index that keeps the analyzer's bin order
PixelIndexUnflipped(i) == i * 4

\* pixelIndex of bin i (line 303), from 0
PixelIndex(i) == (FREQUENCY_BINS - 1 - i) * 4

\* a pixel with its red and blue channels exchanged
PixelBlueFirst(finalValue) ==
  << ToUint8(200 + (finalValue * 55) \div 100),
     ToUint8((Pow09(finalValue) * 255) \div 100),
     ToUint8((finalValue * 255) \div 100),
     255 >>

\* the four bytes written for a final value (lines 304-307)
Pixel(finalValue) ==
  << ToUint8((finalValue * 255) \div 100),
     ToUint8((Pow09(finalValue) * 255) \div 100),
     ToUint8(200 + (finalValue * 55) \div 100),
     255 >>

RECURSIVE WriteRow(_, _, _)
\* the loop of lines 282-308 over the bins i, ..., FREQUENCY_BINS - 1 (from
\* 0): the pixel of each bin is stored at its pixelIndex
WriteRow(spectrogramData, smoothedRow, i) ==
  IF i >= FREQUENCY_BINS THEN spectrogramData
  ELSE LET pixelIndex == PixelIndex(i)
           pixel == Pixel(smoothedRow[i + 1])
       IN  WriteRow([spectrogramData EXCEPT ![pixelIndex + 1] = pixel[1],
                                            ![pixelIndex + 2] = pixel[2],
                                            ![pixelIndex + 3] = pixel[3],
                                            ![pixelIndex + 4] = pixel[4]],
                    smoothedRow, i + 1)

\* a shift of the history towards the newest row instead of away from it
ShiftHistoryTowardsNewest(spectrogramData) ==
  CopyWithin(spectrogramData, 0, ROW_BYTE_SIZE, Len(spectrogramData))

\* the per-tick shift of the history by one row (lines 264-268)
ShiftHistory(spectrogramData) ==
  CopyWithin(spectrogramData, ROW_BYTE_SIZE, 0, Len(spectrogramData) - ROW_BYTE_SIZE)

\* an analysis that leaves the frame to the engine's analyser node once the
\* audio source plays
UsesSoftwareAnalysisUntilPlayback(s) == s.audioBuffer # 0 /\ ~s.audioReady

\* whether this tick analyses the asset (lines 260-262)
UsesSoftwareAnalysis(s) == s.audioBuffer # 0

\* updateSpectrogram() at clock reading t
updateSpectrogram(s, t) ==
  IF s.dataArray = NoArray \/ s.texture = NoArray THEN s
  ELSE
    LET s1 == IF UsesSoftwareAnalysis(s) THEN computeFrequencyData(s, t)
              ELSE [s EXCEPT !.lastAnalysis = "noasset", !.readIdx = {}]
        shifted == ShiftHistory(s1.texture)
        normalizedBins == NormalizedBins(s1.dataArray)
        smoothedRow == Tabulate([i \in 1..FREQUENCY_BINS |->
                          FinalValue(s1.hasSmoothedRow, s1.smoothedRow[i],
                                     BlendedFreq(normalizedBins, i - 1))],
                                FREQUENCY_BINS)
        written == WriteRow(shifted, smoothedRow, 0)
    IN  [s1 EXCEPT !.texture = written,
                   !.normalizedBins = normalizedBins,
                   !.smoothedRow = smoothedRow,
                   !.hasSmoothedRow = TRUE,
                   !.committed = Append(@, SubSeq(written, 1, ROW_BYTE_SIZE)),
                   !.rows = Append(@, smoothedRow)]

(* ------------------------------ renderScene ---------------------------- *)

\* a tick that asks for the next tick only once the asset is there
SchedulesNextTickWhenLoaded(s) == s.audioBuffer # 0

\* whether a tick that ran its body asks for the next tick (line 696 asks
\* before anything else runs, whatever the state)
SchedulesNextTick(s) == TRUE

\* a tick that leaves the history alone until the asset is loaded
renderSceneWhenLoaded(s, t) ==
  LET s0 == [s EXCEPT !.animation = IF SchedulesNextTick(s) THEN "pending" ELSE "none"]
  IN  IF s0.analyser /\ s0.dataArray # NoArray /\ s0.audioBuffer # 0
        THEN updateSpectrogram(s0, t)
        ELSE s0

\* renderScene() at clock reading t (lines 695-711)
renderScene(s, t) ==
  LET s0 == [s EXCEPT !.animation = IF SchedulesNextTick(s) THEN "pending" ELSE "none"]
  IN  IF s0.analyser /\ s0.dataArray # NoArray
        THEN updateSpectrogram(s0, t)
        ELSE s0

(* ---------------------------- startAudioSource ------------------------- *)

\* a guard that does not look for a source that is already playing
StartRefusedUnlessPlaying(s) == ~s.ctxRef \/ s.audioBuffer = 0 \/ ~s.analyser

\* the guard of startAudioSource (line 376)
StartRefused(s) ==
  ~s.ctxRef \/ s.audioBuffer = 0 \/ ~s.analyser \/ s.audioSource # 0

\* a source that always starts at the beginning of the asset
StartOffsetZero(b, t) == 0

\* the offset handed to source.start (lines 385-389): time % buffer.duration,
\* in milliseconds
StartOffset(b, t) == t % BufferDuration(b)

\* startAudioSource() (lines 371-395): ok is whether createBufferSource,
\* connect and start all return, t the clock reading of line 385 and from
\* the caller (recorded, not part of the program)
startAudioSource(s, ok, t, from) ==
  IF StartRefused(s) THEN s
  ELSE IF ok
    THEN [s EXCEPT !.audioSource = 1,
                   !.sourceOffset = StartOffset(s.audioBuffer, t),
                   !.audioReady = TRUE,
                   !.connected = @ \cup {"source"},
                   !.started = @ + 1,
                   !.startedBy = @ \cup {from}]
    ELSE [s EXCEPT !.log = @ \cup {"Failed to start audio source"}]

(* ------------------------------- the mount ----------------------------- *)

\* The refs after both effects have run their set-up, before the first call
\* of renderScene (line 713): the audio effect (lines 398-494) with the
\* engine in state engineState, and the scene effect (lines 546-693).
Mounted(engineState) ==
  [ ctxRef |-> TRUE, ctxState |-> engineState,
    analyser |-> TRUE, gainNode |-> TRUE, gainValue |-> 0, gainTarget |-> 0,
    connected |-> {"analyser", "gain"},
    dataArray |-> Zeros(fftSize \div 2),
    audioBuffer |-> 0, audioSource |-> 0, sourceOffset |-> 0,
    audioReady |-> FALSE, isStarted |-> FALSE, isMuted |-> TRUE,
    cancelled |-> FALSE, aborted |-> FALSE, loadPc |-> "fetch",
    listeners |-> userGestureEvents,
    pending |-> [gesture |-> 0, mute |-> 0],
    prevFrequencyData |-> NoArray,
    normalizedBins |-> Zeros(FREQUENCY_BINS),
    smoothedRow |-> Zeros(FREQUENCY_BINS),
    hasSmoothedRow |-> FALSE,
    texture |-> Zeros(FREQUENCY_BINS * HISTORY_LENGTH * 4),
    animation |-> "none", observer |-> TRUE, disposed |-> FALSE,
    unmounted |-> FALSE,
    \* what the console holds
    log |-> {},
    \* records of what happened, not read by the program
    started |-> 0, startedBy |-> {},
    committed |-> <<>>, rows |-> <<>>, teardown |-> <<>>,
    readIdx |-> {}, lastAnalysis |-> "none", assetSetAfterTeardown |-> FALSE,
    resumedAfterTeardown |-> FALSE,
    unlocked |-> FALSE, failedAt |-> -1 ]

(* --------------------------- loadAudioBuffer --------------------------- *)

\* the catch of loadAudioBuffer for an error that is no AbortError (line
\* 443); failedAt records the number of rows committed by then
loadFails(s) ==
  [s EXCEPT !.loadPc = "failed", !.failedAt = Len(s.committed),
            !.log = @ \cup {"Failed to load rainforest audio"}]

\* the continuation of `await fetch(...)` (lines 427-430): ok is whether the
\* request succeeded; a request whose signal is aborted rejects with AbortError
loadAfterFetch(s, ok) ==
  IF s.aborted THEN [s EXCEPT !.loadPc = "aborted"]
  ELSE IF ok THEN [s EXCEPT !.loadPc = "body"]
  ELSE loadFails(s)

\* the continuation of `await response.arrayBuffer()` (lines 430-432);
\* settled is whether the body had arrived before an abort
loadAfterBody(s, ok, settled) ==
  IF s.aborted /\ ~settled THEN [s EXCEPT !.loadPc = "aborted"]
  ELSE IF ~ok THEN loadFails(s)
  ELSE IF s.cancelled THEN [s EXCEPT !.loadPc = "discarded"]
  ELSE [s EXCEPT !.loadPc = "decode"]

\* a load that writes the asset reference whatever the cancelled flag says
StoresAssetAlways(s) == TRUE

\* the asset reference is written (line 434)
StoresAsset(s) == ~s.cancelled

\* a load that stores the asset and leaves the start to the gesture
loadAfterDecodeWithoutStart(s, ok, asset, startOk, t) ==
  IF ~ok THEN loadFails(s)
  ELSE IF ~StoresAsset(s) THEN [s EXCEPT !.loadPc = "discarded"]
  ELSE [s EXCEPT !.audioBuffer = asset, !.loadPc = "done",
                 !.assetSetAfterTeardown = s.unmounted]

\* the continuation of `await ctx.decodeAudioData(buffer)` (lines 432-438)
loadAfterDecode(s, ok, asset, startOk, t) ==
  IF ~ok THEN loadFails(s)
  ELSE IF ~StoresAsset(s) THEN [s EXCEPT !.loadPc = "discarded"]
  ELSE
    LET s1 == [s EXCEPT !.audioBuffer = asset, !.loadPc = "done",
                        !.assetSetAfterTeardown = s.unmounted]
    IN  IF s1.ctxRef /\ s1.ctxState = "running" /\ s1.isStarted /\ s1.audioSource = 0
          THEN startAudioSource(s1, startOk, t, "load")
          ELSE s1

(* ----------------------------- resumeContext --------------------------- *)

\* the listeners left after the then-callback started the source (line 486)
ListenersAfterStart(s) == {}

\* a then-callback that does not look at the state of the engine
resumeThenUnchecked(s, startOk, t) ==
  LET s1 == startAudioSource(s, startOk, t, "gesture")
  IN  [s1 EXCEPT !.listeners = ListenersAfterStart(s1), !.unlocked = TRUE]

\* the then-callback of resumePromise (lines 483-488)
resumeThen(s, startOk, t) ==
  IF s.ctxRef /\ s.ctxState = "running"
    THEN LET s1 == startAudioSource(s, startOk, t, "gesture")
         IN  [s1 EXCEPT !.listeners = ListenersAfterStart(s1), !.unlocked = TRUE]
    ELSE s

\* the catch-callback of resumePromise (lines 489-491)
resumeCatch(s) ==
  [s EXCEPT !.log = @ \cup {"Unable to automatically start audio context:"}]

\* resumeContext(event) (lines 469-492).  ctx.resume() leaves a pending
\* promise; Promise.resolve() runs the then-callback before any other event.
resumeContext(s, startOk, t) ==
  IF ~s.ctxRef THEN s
  ELSE
    LET s1 == [s EXCEPT !.isStarted = TRUE]
    IN  IF s1.ctxState = "suspended"
          THEN [s1 EXCEPT !.pending.gesture = @ + 1]
          ELSE resumeThen(s1, startOk, t)

(* ------------------------------- toggleMute ---------------------------- *)

\* a toggle that resumes a suspended engine when muting as well
toggleMuteResumesAlways(s) ==
  LET newMuted == ~s.isMuted
      s1 == [s EXCEPT !.isMuted = newMuted]
      s2 == IF s1.gainNode /\ s1.ctxRef
              THEN [s1 EXCEPT !.gainTarget = IF newMuted THEN 0 ELSE 1]
              ELSE s1
  IN  IF s2.ctxRef /\ s2.ctxState = "suspended"
        THEN [s2 EXCEPT !.pending.mute = @ + 1]
        ELSE s2

\* toggleMute() (lines 527-543)
toggleMute(s) ==
  LET newMuted == ~s.isMuted
      s1 == [s EXCEPT !.isMuted = newMuted]
      s2 == IF s1.gainNode /\ s1.ctxRef
              THEN [s1 EXCEPT !.gainTarget = IF newMuted THEN 0 ELSE 1]
              ELSE s1
  IN  IF ~newMuted /\ s2.ctxRef /\ s2.ctxState = "suspended"
        THEN [s2 EXCEPT !.pending.mute = @ + 1]
        ELSE s2

\* the then-callback of the mute toggle's resume() (lines 538-540)
muteThen(s, startOk, t) == startAudioSource(s, startOk, t, "mute")

(* ---------------------------- the engine settles ----------------------- *)

\* the resume() promises that have not settled, gesture's and mute toggle's
PendingCount(s) == s.pending.gesture + s.pending.mute

\* A pending resume() of the given kind settles.  outcome "running": the
\* engine starts running and the promise resolves; "resolved": the promise
\* resolves and the engine state is as it was; "rejected": the promise rejects.
resumeSettles(s, kind, outcome, startOk, t) ==
  LET s1 == [s EXCEPT !.pending[kind] = @ - 1,
                      !.resumedAfterTeardown = @ \/ s.unmounted]
      s2 == IF outcome = "running" THEN [s1 EXCEPT !.ctxState = "running"] ELSE s1
  IN  IF outcome = "rejected"
        THEN (IF kind = "gesture" THEN resumeCatch(s2) ELSE s2)
        ELSE (IF kind = "gesture" THEN resumeThen(s2, startOk, t)
                                  ELSE muteThen(s2, startOk, t))

(* ------------------------------ the cleanups --------------------------- *)

\* the cleanup of the audio effect (lines 496-523)
audioCleanup(s) ==
  LET s1 == [s EXCEPT !.cancelled = TRUE, !.aborted = TRUE,
                      !.teardown = Append(@, "abortFetch")]
      s2 == [s1 EXCEPT !.listeners = {},
                       !.teardown = Append(@, "removeListeners")]
      s3 == IF s2.audioSource # 0
              THEN [s2 EXCEPT !.audioSource = 0,
                              !.connected = @ \ {"source"},
                              !.teardown = Append(@, "disconnectSource")]
              ELSE s2
      s4 == IF s3.gainNode
              THEN [s3 EXCEPT !.gainNode = FALSE,
                              !.connected = @ \ {"gain"},
                              !.teardown = Append(@, "disconnectGain")]
              ELSE s3
      s5 == IF s4.analyser
              THEN [s4 EXCEPT !.analyser = FALSE,
                              !.connected = @ \ {"analyser"},
                              !.teardown = Append(@, "disconnectAnalyser")]
              ELSE s4
      s6 == [s5 EXCEPT !.dataArray = NoArray, !.audioBuffer = 0,
                       !.audioReady = FALSE, !.isStarted = FALSE]
      s7 == IF s6.ctxState # "closed"
              THEN [s6 EXCEPT !.ctxState = "closed",
                              !.teardown = Append(@, "closeEngine")]
              ELSE s6
  IN  [s7 EXCEPT !.ctxRef = FALSE]

\* a cleanup of the scene effect that disposes of the texture without
\* looking whether the reference still holds one: on a reference that is
\* null the call throws
sceneCleanupUnguarded(s) ==
  LET s1 == IF s.animation # "none"
              THEN [s EXCEPT !.animation = "cancelled",
                             !.teardown = Append(@, "cancelAnimation")]
              ELSE s
      s2 == [s1 EXCEPT !.observer = FALSE,
                       !.teardown = Append(@, "disconnectObserver")]
      s3 == [s2 EXCEPT !.disposed = TRUE,
                       !.teardown = Append(@, "releaseGpu")]
  IN  IF s.texture = NoArray
        THEN [s3 EXCEPT !.log = @ \cup {"TypeError: dispose of null"}]
        ELSE [s3 EXCEPT !.texture = NoArray]

\* the cleanup of the scene effect (lines 715-732)
sceneCleanup(s) ==
  LET s1 == IF s.animation # "none"
              THEN [s EXCEPT !.animation = "cancelled",
                             !.teardown = Append(@, "cancelAnimation")]
              ELSE s
      s2 == [s1 EXCEPT !.observer = FALSE,
                       !.teardown = Append(@, "disconnectObserver")]
      s3 == [s2 EXCEPT !.disposed = TRUE,
                       !.teardown = Append(@, "releaseGpu")]
  IN  [s3 EXCEPT !.texture = NoArray]

\* an unmount that runs the cleanup of the scene effect alone
unmountSceneOnly(s) == [sceneCleanup(s) EXCEPT !.unmounted = TRUE]

\* an unmount that runs the cleanup of the scene effect first
unmountSceneFirst(s) == [audioCleanup(sceneCleanup(s)) EXCEPT !.unmounted = TRUE]

\* React runs the cleanups of an unmounting component in the order of its
\* effects: the audio effect (line 398) before the scene effect (line 546)
unmount(s) == [sceneCleanup(audioCleanup(s)) EXCEPT !.unmounted = TRUE]

(* ------------------------ the camera and the labels -------------------- *)

\* FRUSTUM_SIZE (line 10)
FRUSTUM_SIZE == 200

\* clientWidth and clientHeight of the container at mount
MountDimensions == <<200, 100>>

\* The anchor of each axis label (lines 638-670) and ten units along the
\* direction its text is aligned with (lines 350-354), in the camera's frame:
\* the camera is at (115, 95, 115) and looks at (40, 0, 40) (lines 573-574);
\* x to the right and y upwards, rounded to whole units.
LabelAnchors ==
  [ freq |-> [x |-> 42, y |-> 20, stepX |-> -7, stepY |-> 5],
    time |-> [x |-> 42, y |-> -17, stepX |-> 7, stepY |-> 5],
    amp  |-> [x |-> 68, y |-> 21, stepX |-> 0, stepY |-> -7] ]

\* a label that has not been placed: its style is as rendered
NoPlacement == [x |-> 0, y |-> 0, dx |-> 0, dy |-> 0, opacity |-> 0]

\* clientWidth / clientHeight || 1, times FRUSTUM_SIZE / 2: the right edge
\* of the camera; 0 / h is 0 and 0 / 0 is NaN, both give the aspect 1
CameraRight(w, h) ==
  IF w = 0 \/ h = 0 THEN FRUSTUM_SIZE \div 2 ELSE (FRUSTUM_SIZE * w) \div (2 * h)

\* resize() (lines 674-683)
resize(v) ==
  [v EXCEPT !.rendererSize = <<v.width, v.height>>,
            !.left = 0 - CameraRight(v.width, v.height),
            !.right = CameraRight(v.width, v.height),
            !.top = FRUSTUM_SIZE \div 2,
            !.bottom = 0 - FRUSTUM_SIZE \div 2]

\* projectPoint (lines 324-330): the pixel of a point of the camera's frame
projectPoint(v, x, y) ==
  [ x |-> ((x - v.left) * v.width) \div (v.right - v.left),
    y |-> ((v.top - y) * v.height) \div (v.top - v.bottom) ]

\* placeLabel (lines 332-364): the translation of the label and the
\* direction on screen whose angle, folded into [-90, 90], is its rotation
placeLabel(v, axis) ==
  LET anchorCoords == projectPoint(v, axis.x, axis.y)
      directionCoords == projectPoint(v, axis.x + axis.stepX, axis.y + axis.stepY)
      dx == directionCoords.x - anchorCoords.x
      dy == directionCoords.y - anchorCoords.y
  IN  [ x |-> anchorCoords.x, y |-> anchorCoords.y,
        dx |-> IF dx < 0 THEN 0 - dx ELSE dx,
        dy |-> IF dx < 0 THEN 0 - dy ELSE dy,
        opacity |-> 1 ]

\* updateAxisLabels() (lines 315-369)
updateAxisLabels(v) ==
  IF ~v.rendererState THEN v
  ELSE [v EXCEPT !.labels = [l \in DOMAIN LabelAnchors |-> placeLabel(v, LabelAnchors[l])]]

\* a callback of the observer that leaves the labels to the next tick
resizeObserverCallbackResizeOnly(v) == [resize(v) EXCEPT !.notified = FALSE]

\* the callback of the ResizeObserver (lines 688-691)
resizeObserverCallback(v) == [updateAxisLabels(resize(v)) EXCEPT !.notified = FALSE]

\* what renderScene does after updateSpectrogram (lines 703-710): it draws
\* the scene with the camera as it is and places the labels
renderView(v) ==
  updateAxisLabels([v EXCEPT !.drawn = [left |-> v.left, right |-> v.right,
                                         top |-> v.top, bottom |-> v.bottom,
                                         size |-> v.rendererSize]])

\* The container, the camera and the labels after the scene effect has
\* created the camera (lines 564-574), called resize() and updateAxisLabels()
\* (lines 685-686) and started to observe the container (lines 688-693): the
\* observer reports the size it finds first.
ViewMounted ==
  updateAxisLabels(resize(
    [ width |-> MountDimensions[1], height |-> MountDimensions[2],
      rendererState |-> TRUE, observing |-> TRUE,
      notified |-> TRUE,
      rendererSize |-> <<0, 0>>,
      left |-> 0 - CameraRight(MountDimensions[1], MountDimensions[2]),
      right |-> CameraRight(MountDimensions[1], MountDimensions[2]),
      top |-> FRUSTUM_SIZE \div 2, bottom |-> 0 - FRUSTUM_SIZE \div 2,
      labels |-> [l \in DOMAIN LabelAnchors |-> NoPlacement],
      \* a record of the camera and the size of the latest draw, not read
      \* by the program
      drawn |-> [left |-> 0, right |-> 0, top |-> 0, bottom |-> 0,
                 size |-> <<0, 0>>] ]))

\* the cleanup of the scene effect, for the camera and the observer (lines
\* 720 and 731)
viewCleanup(v) ==
  [v EXCEPT !.observing = FALSE, !.notified = FALSE, !.rendererState = FALSE]

(* ------------- the 64-bin variant: its analysis pipeline --------------- *)

\* The 64-bin variant after its effects have run (part_002, lines 274-296
\* and 466-470).  Its sizes (64 bins, 96 rows, a 512 sample window) are
\* scaled down to those of FREQUENCY_BINS, HISTORY_LENGTH and fftSize.
VariantMounted ==
  [ audioBuffer |-> 0, dataArray |-> Zeros(fftSize \div 2),
    prevFrequencyData |-> NoArray,
    texture |-> Zeros(FREQUENCY_BINS * HISTORY_LENGTH * 4),
    \* a record of what the latest tick did, not read by the program
    lastAnalysis |-> "none" ]

\* the asset reference is written when the decoding succeeds (part_002,
\* lines 308-310)
variantLoadAfterDecode(s, ok, asset) ==
  IF ok /\ s.audioBuffer = 0 THEN [s EXCEPT !.audioBuffer = asset] ELSE s

\* computeFrequencyData of the variant (part_002, lines 115-174): every bin
\* from 0 is analysed, there is no low-frequency cutoff
variantComputeFrequencyData(s, t) ==
  LET b == s.audioBuffer
      startIndex == StartIndex(b, t)
      prevData == IF s.prevFrequencyData = NoArray
                    THEN Zeros(Len(s.dataArray)) ELSE s.prevFrequencyData
  IN  IF startIndex + fftSize >= BufferLength(b)
        THEN [s EXCEPT !.prevFrequencyData = prevData, !.lastAnalysis = "skipped"]
        ELSE
          LET binCount == Min(FREQUENCY_BINS, Len(s.dataArray))
              newPrev == Tabulate([k \in 1..Len(prevData) |->
                            IF k - 1 < binCount
                              THEN (prevData[k] * VARIANT_SMOOTHING_CONSTANT
                                     + ByteValue(b, startIndex, k - 1)
                                       * (100 - VARIANT_SMOOTHING_CONSTANT)) \div 100
                              ELSE prevData[k]], Len(prevData))
          IN  [s EXCEPT !.prevFrequencyData = newPrev,
                        !.dataArray = Tabulate([k \in 1..Len(s.dataArray) |->
                                         IF k - 1 < binCount
                                           THEN ToUint8(newPrev[k] \div 100)
                                           ELSE s.dataArray[k]], Len(s.dataArray)),
                        !.lastAnalysis = "analysed"]

RECURSIVE variantWriteRow(_, _, _)
\* the loop of part_002, lines 203-210, over the bins i, ...,
\* FREQUENCY_BINS - 1 (from 0): the pixel of bin i is stored at i * 4
variantWriteRow(spectrogramData, dataArray, i) ==
  IF i >= FREQUENCY_BINS THEN spectrogramData
  ELSE LET usableBins == Min(FREQUENCY_BINS, Len(dataArray))
           normalized == Pow07(IF i < usableBins THEN dataArray[i + 1] ELSE 0)
           pixelIndex == i * 4
           pixel == Pixel(normalized)
       IN  variantWriteRow([spectrogramData EXCEPT ![pixelIndex + 1] = pixel[1],
                                                   ![pixelIndex + 2] = pixel[2],
                                                   ![pixelIndex + 3] = pixel[3],
                                                   ![pixelIndex + 4] = pixel[4]],
                           dataArray, i + 1)

\* updateSpectrogram of the variant (part_002, lines 176-213)
variantUpdateSpectrogram(s, t) ==
  LET s1 == IF s.audioBuffer # 0 THEN variantComputeFrequencyData(s, t)
            ELSE [s EXCEPT !.lastAnalysis = "noasset"]
  IN  [s1 EXCEPT !.texture = variantWriteRow(ShiftHistory(s1.texture), s1.dataArray, 0)]

\* renderScene of the variant (part_002, lines 552-567)
variantRenderScene(s, t) == variantUpdateSpectrogram(s, t)

(* ------------------- the contour variant: its asset load --------------- *)

\* the update queued for one state: none, or the value of the last setter
\* call since the last render
NoUpdate == [set |-> FALSE, value |-> <<>>]
Update(value) == [set |-> TRUE, value |-> value]

\* the updates queued for surfaces and displaySurfaces
NoQueued == [surfaces |-> NoUpdate, displaySurfaces |-> NoUpdate]

\* transitionRef.current = null
NoTransition == [from |-> <<>>, to |-> <<>>, start |-> -1]

\* The contour variant after its load effect has run (part_003, lines
\* 300-316): loadRainforestAudio (lines 75-106) has created its own engine
\* and asked for the asset.  Its fetch is given no abort signal.
ContourMounted ==
  [ payload |-> 0, cancelled |-> FALSE, loadPc |-> "fetch",
    fetchAborted |-> FALSE, engineClosed |-> FALSE, unmounted |-> FALSE,
    log |-> {},
    \* the payload the last render saw, and the state updates queued since
    renderedPayload |-> 0, queued |-> NoQueued,
    \* the state and the refs of the component (lines 289-298)
    surfaces |-> <<>>, displaySurfaces |-> <<>>, displayRef |-> <<>>,
    transition |-> NoTransition, rafRef |-> FALSE,
    \* the closure of the window effect (lines 320-321), the time its timer
    \* is due (-1: no timer) and the animation frame callbacks pending
    windowEffect |-> "idle", offsetSamples |-> 0, timer |-> -1, frames |-> 0,
    \* a record of what happened, not read by the program
    payloadSetAfterTeardown |-> FALSE ]

\* loadRainforestAudio throws: its finally closes the engine (line 104) and
\* the catch of the load effect logs (lines 309-311)
contourLoadFails(s) ==
  [s EXCEPT !.loadPc = "failed", !.engineClosed = TRUE,
            !.log = @ \cup {"Failed to load rainforest audio"}]

\* the continuation of `await fetch(...)` (lines 89-92); ok is whether the
\* request succeeded with response.ok
contourAfterFetch(s, ok) ==
  IF ok THEN [s EXCEPT !.loadPc = "body"] ELSE contourLoadFails(s)

\* the continuation of `await response.arrayBuffer()` (lines 94-95)
contourAfterBody(s, ok) ==
  IF ok THEN [s EXCEPT !.loadPc = "decode"] ELSE contourLoadFails(s)

\* the payload is stored (line 305)
ContourStoresPayload(s) == ~s.cancelled

\* the continuation of `await audioContext.decodeAudioData(buffer)` (lines
\* 95-105) and the then-callback of the load effect (lines 304-308)
contourAfterDecode(s, ok, asset) ==
  IF ~ok THEN contourLoadFails(s)
  ELSE IF ContourStoresPayload(s)
    THEN [s EXCEPT !.payload = asset, !.loadPc = "done", !.engineClosed = TRUE,
                   !.payloadSetAfterTeardown = s.unmounted]
    ELSE [s EXCEPT !.loadPc = "dropped", !.engineClosed = TRUE]

\* the cleanup of the load effect (lines 313-315)
contourCleanup(s) == [s EXCEPT !.cancelled = TRUE, !.unmounted = TRUE]

(* ----------------- the contour variant: its rolling window ------------- *)

\* cos and sin of 2 pi j / 16, j = 0..15, in tenths
ContourAngleSteps == 16
ContourCosTable == <<10, 9, 7, 4, 0, -4, -7, -9, -10, -9, -7, -4, 0, 4, 7, 9>>
ContourSinTable == <<0, 4, 7, 9, 10, 9, 7, 4, 0, -4, -7, -9, -10, -9, -7, -4>>

\* 0.5 * (1 - cos(2 pi index / (length - 1))) for length 1..8, in hundredths
ContourHannTable ==
  << <<100>>,
     <<0, 0>>,
     <<0, 100, 0>>,
     <<0, 75, 75, 0>>,
     <<0, 50, 100, 50, 0>>,
     <<0, 35, 90, 90, 35, 0>>,
     <<0, 25, 75, 100, 75, 25, 0>>,
     <<0, 19, 61, 95, 95, 61, 19, 0>> >>

\* Math.pow(r, 0.85) for r = 0, 0.01, ..., 1, in hundredths
Pow085Table ==
  <<   0,   2,   4,   5,   6,   8,   9,  10,  12,  13,  14,  15,  16,  18,  19,  20,
      21,  22,  23,  24,  25,  27,  28,  29,  30,  31,  32,  33,  34,  35,  36,  37,
      38,  39,  40,  41,  42,  43,  44,  45,  46,  47,  48,  49,  50,  51,  52,  53,
      54,  55,  55,  56,  57,  58,  59,  60,  61,  62,  63,  64,  65,  66,  67,  68,
      68,  69,  70,  71,  72,  73,  74,  75,  76,  77,  77,  78,  79,  80,  81,  82,
      83,  84,  84,  85,  86,  87,  88,  89,  90,  91,  91,  92,  93,  94,  95,  96,
      97,  97,  98,  99, 100 >>

RECURSIVE SqrtFrom(_, _)
\* Newton's iteration for the integer square root of n, from r >= sqrt(n)
SqrtFrom(n, r) ==
  LET next == (r + n \div r) \div 2
  IN  IF next >= r THEN r ELSE SqrtFrom(n, next)

\* Math.sqrt, rounded down
Sqrt(n) == IF n = 0 THEN 0 ELSE SqrtFrom(n, n)

\* the largest element of a non-empty set of numbers
SetMax(S) == CHOOSE m \in S : \A x \in S : x <= m

\* applyHannWindow (lines 33-36), in hundredths
applyHannWindow(length, index) ==
  IF length <= 1 THEN 100 ELSE ContourHannTable[length][index + 1]

\* computeSpectrumSegment (lines 38-73): the magnitude of each of FREQ_BINS
\* frequencies between MIN_FREQ and min(MAX_FREQ, nyquist) in the segment;
\* cosValue and sinValue of sample i are cos and sin of i * angle
computeSpectrumSegment(segment, sampleRate) ==
  LET nyquist == sampleRate \div 2
      maxTargetFreq == Min(MAX_FREQ, nyquist)
      freqSpan == Max(1, maxTargetFreq - MIN_FREQ)
      angle(bin) ==
        ((MIN_FREQ + (freqSpan * bin) \div (IF FREQ_BINS - 1 # 0 THEN FREQ_BINS - 1 ELSE 1))
           * ContourAngleSteps) \div sampleRate
      windowedSample(i) == segment[i + 1] * applyHannWindow(Len(segment), i)
      real(bin) ==
        SumTo([n \in 1..Len(segment) |->
                 windowedSample(n - 1)
                   * ContourCosTable[(((n - 1) * angle(bin)) % ContourAngleSteps) + 1]],
              Len(segment))
      imag(bin) ==
        0 - SumTo([n \in 1..Len(segment) |->
                     windowedSample(n - 1)
                       * ContourSinTable[(((n - 1) * angle(bin)) % ContourAngleSteps) + 1]],
                  Len(segment))
  IN  Tabulate([b \in 1..FREQ_BINS |->
                  Sqrt(real(b - 1) * real(b - 1) + imag(b - 1) * imag(b - 1))],
               FREQ_BINS)

\* extractSurfacesForWindow (lines 108-163): SURFACE_COUNT layers of
\* TIME_SLICES rows of FREQ_BINS magnitudes of the window of windowSamples
\* samples at startSample, each divided by the largest and raised to 0.85,
\* in hundredths; no layer at all when the window is empty
extractSurfacesForWindow(p, startSample, windowSamples) ==
  LET samples == Assets[p].samples
      end == Min(Len(samples), startSample + windowSamples)
  IN  IF end <= startSample THEN <<>>
      ELSE
        LET windowedLength == end - startSample
            segmentLength == Max(1, windowedLength \div SURFACE_COUNT)
            layerLength(surfaceIndex) ==
              Min(surfaceIndex * segmentLength + segmentLength, windowedLength)
                - surfaceIndex * segmentLength
            segment(surfaceIndex, start, available) ==
              Tabulate([i \in 1..available |->
                          IF start + i - 1 < layerLength(surfaceIndex)
                            THEN samples[startSample + surfaceIndex * segmentLength + start + i]
                            ELSE 0], available)
            row(surfaceIndex, slice) ==
              LET sliceLength == Max(1, layerLength(surfaceIndex) \div TIME_SLICES)
                  start == slice * sliceLength
              IN  IF start >= layerLength(surfaceIndex) THEN Zeros(FREQ_BINS)
                  ELSE computeSpectrumSegment(
                         segment(surfaceIndex, start,
                                 Max(MIN_SEGMENT_LENGTH,
                                     Min(WINDOW_SIZE, layerLength(surfaceIndex) - start))),
                         Assets[p].sampleRate)
            raw == SelectSeq(
                     Tabulate([n \in 1..SURFACE_COUNT |->
                                 IF layerLength(n - 1) <= 0 THEN <<>>
                                 ELSE Tabulate([m \in 1..TIME_SLICES |-> row(n - 1, m - 1)],
                                               TIME_SLICES)],
                              SURFACE_COUNT),
                     LAMBDA surface : surface # <<>>)
            globalMax ==
              SetMax({0} \cup {raw[n][m][b] :
                                 n \in 1..Len(raw), m \in 1..TIME_SLICES, b \in 1..FREQ_BINS})
            normalizer == IF globalMax = 0 THEN 1 ELSE globalMax
        IN  Tabulate([n \in 1..Len(raw) |->
                        Tabulate([m \in 1..TIME_SLICES |->
                                    Tabulate([b \in 1..FREQ_BINS |->
                                                Pow085Table[(raw[n][m][b] * 100) \div normalizer + 1]],
                                             FREQ_BINS)],
                                 TIME_SLICES)],
                     Len(raw))

\* a blend that runs from the destination back to the start
blendSurfacesReversed(from, to, t) ==
  IF Len(from) = 0 THEN to
  ELSE
    LET clamped == Min(100, Max(0, t))
    IN  Tabulate([n \in 1..Len(to) |->
          Tabulate([m \in 1..Len(to[n]) |->
            Tabulate([b \in 1..Len(to[n][m]) |->
              LET start == IF n <= Len(from) /\ m <= Len(from[n]) /\ b <= Len(from[n][m])
                             THEN from[n][m][b] ELSE 0
              IN  to[n][m][b] + ((start - to[n][m][b]) * clamped) \div 100],
              Len(to[n][m]))], Len(to[n]))], Len(to))

\* blendSurfaces (lines 268-286): t and the cells in hundredths; a cell the
\* start set does not have counts as 0
blendSurfaces(from, to, t) ==
  IF Len(from) = 0 THEN to
  ELSE
    LET clamped == Min(100, Max(0, t))
    IN  Tabulate([n \in 1..Len(to) |->
          Tabulate([m \in 1..Len(to[n]) |->
            Tabulate([b \in 1..Len(to[n][m]) |->
              LET start == IF n <= Len(from) /\ m <= Len(from[n]) /\ b <= Len(from[n][m])
                             THEN from[n][m][b] ELSE 0
              IN  start + ((to[n][m][b] - start) * clamped) \div 100],
              Len(to[n][m]))], Len(to[n]))], Len(to))

\* a window as long as the configured duration, however short the asset
WindowSamplesUnclamped(p) ==
  (Assets[p].sampleRate * WINDOW_DURATION_MS) \div MS_PER_SECOND

\* windowSamples (lines 358-361)
WindowSamples(p) ==
  Min(BufferLength(p), (Assets[p].sampleRate * WINDOW_DURATION_MS) \div MS_PER_SECOND)

\* stepSamples (lines 364-367)
StepSamples(p) ==
  Max(MIN_STEP_SAMPLES, (Assets[p].sampleRate * FRAME_INTERVAL_MS) \div MS_PER_SECOND)

\* a blend that asks for an animation frame whether or not one is pending
StartsBlendTaskAlways(s) == TRUE

\* scheduleBlend asks for an animation frame (line 327)
StartsBlendTask(s) == ~s.rafRef

\* scheduleBlend (lines 322-356), at clock reading t
scheduleBlend(s, next, t) ==
  LET baseline == IF Len(s.displayRef) # 0 THEN s.displayRef ELSE next
      s1 == [s EXCEPT !.transition = [from |-> baseline, to |-> next, start |-> t]]
  IN  IF StartsBlendTask(s)
        THEN [s1 EXCEPT !.rafRef = TRUE, !.frames = @ + 1]
        ELSE s1

\* progress (lines 335-338), in hundredths
BlendProgress(transition, t) ==
  Min(((t - transition.start) * 100) \div BLEND_DURATION_MS, 100)

\* step (lines 328-352): an animation frame callback of the blend runs at
\* clock reading t
contourStep(s, t) ==
  LET s0 == [s EXCEPT !.frames = @ - 1]
  IN  IF s.transition = NoTransition THEN [s0 EXCEPT !.rafRef = FALSE]
      ELSE
        LET progress == BlendProgress(s.transition, t)
            blended == IF progress >= 100 THEN s.transition.to
                       ELSE blendSurfaces(s.transition.from, s.transition.to, progress)
            s1 == [s0 EXCEPT !.queued.displaySurfaces = Update(blended)]
        IN  IF progress >= 100
              THEN [s1 EXCEPT !.displayRef = s.transition.to,
                              !.transition = NoTransition,
                              !.rafRef = FALSE]
              ELSE [s1 EXCEPT !.rafRef = TRUE, !.frames = @ + 1]

\* a window that advances and never goes back to the start
NextOffsetSamplesNoReset(p, offsetSamples) == offsetSamples + StepSamples(p)

\* the start of the window after an update (lines 381-384)
NextOffsetSamples(p, offsetSamples) ==
  IF offsetSamples + StepSamples(p) + WindowSamples(p) >= BufferLength(p)
    THEN 0
    ELSE offsetSamples + StepSamples(p)

\* update (lines 369-387), at clock reading t
contourUpdate(s, t) ==
  LET nextSurfaces == extractSurfacesForWindow(s.payload, s.offsetSamples,
                                               WindowSamples(s.payload))
      s1 == IF Len(nextSurfaces) # 0
              THEN scheduleBlend([s EXCEPT !.queued.surfaces = Update(nextSurfaces)],
                                 nextSurfaces, t)
              ELSE s
  IN  [s1 EXCEPT !.offsetSamples = NextOffsetSamples(s.payload, s.offsetSamples),
                 !.timer = t + FRAME_INTERVAL_MS]

\* the window effect (lines 318-389) runs for a payload, at clock reading t
contourWindowEffect(s, t) ==
  IF s.payload = 0 \/ WindowSamples(s.payload) = 0 THEN s
  ELSE contourUpdate([s EXCEPT !.windowEffect = "active", !.offsetSamples = 0], t)

\* a render of the component and the effects that follow it, at clock
\* reading t: the window effect when the payload changed, displayRef follows
\* displaySurfaces (lines 400-402), and the first layer set is displayed at
\* once (lines 404-409)
contourCommit(s, t) ==
  LET rendered ==
        [s EXCEPT !.renderedPayload = s.payload,
                  !.surfaces = IF s.queued.surfaces.set
                                 THEN s.queued.surfaces.value ELSE @,
                  !.displaySurfaces = IF s.queued.displaySurfaces.set
                                        THEN s.queued.displaySurfaces.value ELSE @,
                  !.queued = NoQueued]
      e1 == IF s.payload # s.renderedPayload
              THEN contourWindowEffect(rendered, t) ELSE rendered
      e2 == IF s.queued.displaySurfaces.set
              THEN [e1 EXCEPT !.displayRef = rendered.displaySurfaces] ELSE e1
  IN  IF /\ s.queued.surfaces.set
            \/ Len(rendered.displaySurfaces) # Len(s.displaySurfaces)
         /\ Len(rendered.displaySurfaces) = 0
         /\ Len(rendered.surfaces) # 0
        THEN [e2 EXCEPT !.queued.displaySurfaces = Update(rendered.surfaces),
                        !.displayRef = rendered.surfaces]
        ELSE e2

\* the cleanup of the window effect (lines 391-397)
contourWindowCleanup(s) ==
  IF s.windowEffect # "active" THEN s
  ELSE [s EXCEPT !.windowEffect = "cleaned",
                 !.timer = -1,
                 !.frames = IF s.rafRef THEN @ - 1 ELSE @,
                 !.rafRef = FALSE]

\* the contour variant unmounts: its cleanups run in the order of its effects
contourUnmount(s) == contourWindowCleanup(contourCleanup(s))

(* ------------------------------- behaviours ---------------------------- *)

\* The engine a browser hands out is suspended until a gesture, or running at
\* once where autoplay is allowed.  The mount ends with the first call of
\* renderScene (line 713), at clock reading 0.
Init ==
  /\ \E engineState \in {"suspended", "running"} :
       c = renderScene(Mounted(engineState), 0)
  /\ q = renderScene(Mounted("suspended"), 0)
  /\ now = 0
  /\ contour = ContourMounted
  /\ variant = variantRenderScene(VariantMounted, 0)
  /\ view = renderView(ViewMounted)

\* What a call of startAudioSource meets: whether the buffer source can be
\* created, connected and started, and the clock reading of line 385.  A
\* handler that does not get past the guard of line 376 meets neither, and
\* attempts says whether it does.
StartInputs(attempts) ==
  IF attempts THEN BOOLEAN \X {now + d : d \in StartDelays} ELSE {<<TRUE, now>>}

\* the animation frame callback runs
Tick ==
  \E d \in TickSteps :
    /\ c.animation = "pending"
    /\ Len(c.committed) < MaxTicks
    /\ now + d <= MaxClock
    /\ now' = now + d
    /\ c' = renderScene(c, now + d)
    /\ q' = IF q.animation = "pending" THEN renderScene(q, now + d) ELSE q
    /\ variant' = variantRenderScene(variant, now + d)
    /\ UNCHANGED contour
    /\ view' = renderView(view)

\* the request for the asset settles
FetchSettles ==
  \E ok \in BOOLEAN :
    /\ c.loadPc = "fetch"
    /\ c' = loadAfterFetch(c, ok)
    /\ q' = loadAfterFetch(q, ok)
    /\ UNCHANGED <<now, contour, variant, view>>

\* the body of the response settles
BodySettles ==
  \E ok \in BOOLEAN, settled \in BOOLEAN :
    /\ c.loadPc = "body"
    /\ c' = loadAfterBody(c, ok, settled)
    /\ q' = loadAfterBody(q, ok, settled)
    /\ UNCHANGED <<now, contour, variant, view>>

\* the decoding of the asset settles
DecodeSettles ==
  \E ok \in BOOLEAN, asset \in AssetIds :
    \E in \in StartInputs(loadAfterDecode(c, ok, asset, TRUE, now).started # c.started) :
      /\ c.loadPc = "decode"
      /\ c' = loadAfterDecode(c, ok, asset, in[1], in[2])
      /\ q' = loadAfterDecode(q, ok, asset, in[1], in[2])
    /\ variant' = variantLoadAfterDecode(variant, ok, asset)
    /\ UNCHANGED <<now, contour, view>>

\* a click, touchstart, keydown or mousedown reaches the document while its
\* listener is attached; the handler does not read the event
Gesture ==
  \E in \in StartInputs(resumeContext(c, TRUE, now).started # c.started) :
    /\ c.listeners # {}
    /\ c.ctxState = "suspended" => PendingCount(c) < MaxPending
    /\ c' = resumeContext(c, in[1], in[2])
    /\ UNCHANGED <<q, now, contour, variant, view>>

\* a click on the mute button
ToggleMute ==
  /\ ~c.unmounted
  /\ PendingCount(c) < MaxPending
  /\ c' = toggleMute(c)
  /\ UNCHANGED <<q, now, contour, variant, view>>

\* the engine settles a pending resume(); a closed engine never runs again
ResumeSettles ==
  \E kind \in {"gesture", "mute"}, outcome \in {"running", "resolved", "rejected"} :
    \E in \in StartInputs(resumeSettles(c, kind, outcome, TRUE, now).started # c.started) :
      /\ c.pending[kind] > 0
      /\ outcome = "running" => c.ctxState # "closed"
      /\ c' = resumeSettles(c, kind, outcome, in[1], in[2])
    /\ UNCHANGED <<q, now, contour, variant, view>>

\* the component unmounts
Unmount ==
  /\ ~c.unmounted
  /\ c' = unmount(c)
  /\ q' = unmount(q)
  /\ view' = viewCleanup(view)
  /\ UNCHANGED <<now, contour, variant>>

\* the contour variant: the request for the asset settles
ContourFetchSettles ==
  \E ok \in BOOLEAN :
    /\ contour.loadPc = "fetch"
    /\ contour' = contourAfterFetch(contour, ok)
    /\ UNCHANGED <<c, q, now, variant, view>>

\* the contour variant: the body of the response settles
ContourBodySettles ==
  \E ok \in BOOLEAN :
    /\ contour.loadPc = "body"
    /\ contour' = contourAfterBody(contour, ok)
    /\ UNCHANGED <<c, q, now, variant, view>>

\* the contour variant: the decoding of the asset settles
ContourDecodeSettles ==
  \E ok \in BOOLEAN, asset \in AssetIds :
    /\ contour.loadPc = "decode"
    /\ contour' = contourAfterDecode(contour, ok, asset)
    /\ UNCHANGED <<c, q, now, variant, view>>

\* the contour variant unmounts
ContourUnmount ==
  /\ ~contour.unmounted
  /\ contour' = contourUnmount(contour)
  /\ UNCHANGED <<c, q, now, variant, view>>

Next ==
  \/ Tick
  \/ FetchSettles
  \/ BodySettles
  \/ DecodeSettles
  \/ Gesture
  \/ ToggleMute
  \/ ResumeSettles
  \/ Unmount

Spec == Init /\ [][Next]_vars

\* The asset load of both variants, with the events that interleave with it:
\* gestures, the mute toggle, the engine's answers and the unmounts.
NextLoad ==
  \/ FetchSettles
  \/ BodySettles
  \/ DecodeSettles
  \/ Gesture
  \/ ToggleMute
  \/ ResumeSettles
  \/ Unmount
  \/ ContourFetchSettles
  \/ ContourBodySettles
  \/ ContourDecodeSettles
  \/ ContourUnmount

SpecLoad == Init /\ [][NextLoad]_vars

\* a render of the contour variant is outstanding: its payload or a queued
\* state update has not been rendered
ContourCommitDue ==
  /\ ~contour.unmounted
  /\ contour.payload # contour.renderedPayload \/ contour.queued # NoQueued

\* the contour variant renders and runs the effects of the render; what a
\* render reads of the clock is the reading of the handler before it
ContourCommit ==
  /\ ContourCommitDue
  /\ contour' = contourCommit(contour, now)
  /\ UNCHANGED <<c, q, now, variant, view>>

\* the contour variant: the analysis timer fires, on time or late
ContourTimer ==
  \E d \in {0} \cup TickSteps :
    /\ contour.timer >= 0
    /\ now + d >= contour.timer
    /\ now + d <= MaxContourClock
    /\ now' = now + d
    /\ contour' = contourUpdate(contour, now + d)
    /\ UNCHANGED <<c, q, variant, view>>

\* the contour variant: an animation frame callback of the blend runs
ContourFrame ==
  \E d \in TickSteps :
    /\ contour.frames > 0
    /\ now + d <= MaxContourClock
    /\ now' = now + d
    /\ contour' = contourStep(contour, now + d)
    /\ UNCHANGED <<c, q, variant, view>>

\* The contour variant from its mount on: its load, its renders, its analysis
\* timer, the animation frames of its blend and its unmount.
NextContour ==
  \/ ContourFetchSettles
  \/ ContourBodySettles
  \/ ContourDecodeSettles
  \/ ContourCommit
  \/ ContourTimer
  \/ ContourFrame
  \/ ContourUnmount

SpecContour == Init /\ [][NextContour]_vars

\* the time from one animation frame of the blend to the next
FrameDelays == {1, 2}

\* The readings of performance.now() enter the blend and the timer only
\* through their differences (lines 335-337, 386), so the stored readings
\* are kept relative to the clock reading t; a start further back than the
\* blend's duration has progress 1 like one at the duration.
RelativeTo(s, t) ==
  [s EXCEPT !.timer = IF @ < 0 THEN @ ELSE @ - t,
            !.transition = IF @ = NoTransition THEN @
                           ELSE [@ EXCEPT !.start = Max(@ - t, 0 - BLEND_DURATION_MS)]]

\* no render of the component is outstanding
ContourRendered ==
  contour.payload = contour.renderedPayload /\ contour.queued = NoQueued

\* the analysis timer can fire: it is due, the renders asked for by earlier
\* callbacks are done and the animation frames before it have run
ContourTimerDue ==
  /\ ContourRendered
  /\ contour.timer >= now
  /\ contour.frames = 0 \/ contour.timer = now

\* the analysis timer fires when it is due (line 386)
ContourTimerOnTime ==
  /\ ContourTimerDue
  /\ contour' = RelativeTo(contourUpdate(contour, contour.timer), contour.timer - now)
  /\ UNCHANGED <<c, q, now, variant, view>>

\* an animation frame callback of the blend runs, not later than the timer
ContourFrameOnTime ==
  \E d \in FrameDelays :
    /\ ContourRendered
    /\ contour.frames > 0
    /\ contour.timer < 0 \/ now + d <= contour.timer
    /\ contour' = RelativeTo(contourStep(contour, now + d), d)
    /\ UNCHANGED <<c, q, now, variant, view>>

\* The contour variant with its timer on time, for as long as it is mounted.
NextContourOnTime ==
  \/ ContourFetchSettles
  \/ ContourBodySettles
  \/ ContourDecodeSettles
  \/ ContourCommit
  \/ ContourTimerOnTime
  \/ ContourFrameOnTime
  \/ ContourUnmount

\* The browser runs a requested animation frame, a pending render and a due
\* timer: weak fairness of the three, for the render and the timer with the
\* condition under which they can run written out.
SpecContourOnTime ==
  /\ Init
  /\ [][NextContourOnTime]_vars
  /\ WF_vars(ContourFrameOnTime)
  /\ []<>~ContourCommitDue \/ []<><<ContourCommit>>_vars
  /\ []<>~ContourTimerDue \/ []<><<ContourTimerOnTime>>_vars

\* byte values of the frames handed to the smoothing pipeline
FrameValues == {0, 64, 128, 192, 255}

\* a frame whose bins all hold the byte v
ConstantFrame(v) == [i \in 1..(fftSize \div 2) |-> v]

\* the render tick finds the frame filled with one value in every bin: with
\* no asset the analyzer is not called (line 260) and the frame goes through
\* the spatial and the temporal filter as it is
FilterTick ==
  \E v \in FrameValues :
    /\ c.audioBuffer = 0
    /\ c.animation = "pending"
    /\ Len(c.committed) < MaxTicks
    /\ c' = renderScene([c EXCEPT !.dataArray = ConstantFrame(v)], now)
    /\ view' = renderView(view)
    /\ UNCHANGED <<q, now, contour, variant>>

\* The smoothing pipeline on its own: frames of one value per tick.
NextFilter == FilterTick

SpecFilter == Init /\ [][NextFilter]_vars

\* The sizes the container takes: hidden, square, wide and tall. (A width
\* without a height makes the aspect infinite; no size here does.)
Dimensions == {<<0, 0>>, <<100, 100>>, <<200, 100>>, <<100, 200>>}

\* the layout gives the container another size; the observer has a
\* notification to deliver
ContainerResizes ==
  \E d \in Dimensions :
    /\ view.observing
    /\ d # <<view.width, view.height>>
    /\ view' = [view EXCEPT !.width = d[1], !.height = d[2], !.notified = TRUE]
    /\ UNCHANGED <<c, q, now, contour, variant>>

\* the observer delivers its notification
ResizeObserved ==
  /\ view.observing
  /\ view.notified
  /\ view' = resizeObserverCallback(view)
  /\ UNCHANGED <<c, q, now, contour, variant>>

\* The scene under changes of the size of its container.
NextResize == Tick \/ ContainerResizes \/ ResizeObserved \/ Unmount

SpecResize == Init /\ [][NextResize]_vars

\* the bytes an impulse at a bin can have
ImpulseValues == {64, 255}

\* a frame that is 0 everywhere but at bin i (from 0)
ImpulseFrame(i, v) == [j \in 1..(fftSize \div 2) |-> IF j = i + 1 THEN v ELSE 0]

\* A render tick before the asset is loaded (updateSpectrogram skips
\* computeFrequencyData, line 260) that finds an impulse in the frame buffer.
ImpulseTick ==
  \E i \in 0..(FREQUENCY_BINS - 1), v \in ImpulseValues :
    /\ c.audioBuffer = 0
    /\ c.animation = "pending"
    /\ Len(c.committed) < MaxTicks
    /\ c' = renderScene([c EXCEPT !.dataArray = ImpulseFrame(i, v)], now)
    /\ view' = renderView(view)
    /\ UNCHANGED <<q, now, contour, variant>>

\* The smoothing pipeline on its own: one impulse per tick.
NextImpulse == ImpulseTick

SpecImpulse == Init /\ [][NextImpulse]_vars

(* ================================ claims =============================== *)

\* row j of the history texture, counted from 0 at the newest row
HistoryRow(texture, j) == SubSeq(texture, j * ROW_BYTE_SIZE + 1, (j + 1) * ROW_BYTE_SIZE)

\* the row the texture holds before any tick has written to it
BlankRow == Zeros(ROW_BYTE_SIZE)

\* C1: while the texture exists it holds HISTORY_LENGTH rows of
\* FREQUENCY_BINS pixels; after n ticks row 0 is the row committed by the
\* latest tick, row j (j < min(n, HISTORY_LENGTH)) is the row committed j
\* ticks before it, the rows beyond n are still blank, and so a row
\* committed HISTORY_LENGTH or more ticks ago is in no row of the texture.
C1_HistoryHoldsLatestRows ==
  c.texture # NoArray =>
    LET n == Len(c.committed)
    IN  /\ Len(c.texture) = HISTORY_LENGTH * FREQUENCY_BINS * 4
        /\ \A j \in 0..(HISTORY_LENGTH - 1) :
              HistoryRow(c.texture, j) =
                IF j < n THEN c.committed[n - j] ELSE BlankRow

\* more ticks than the history has rows, and the row that has left the
\* history differs from every row that is still in it
C1_Witness ==
  /\ c.texture # NoArray
  /\ Len(c.committed) > HISTORY_LENGTH
  /\ \A j \in 0..(HISTORY_LENGTH - 1) :
       HistoryRow(c.texture, j) # c.committed[Len(c.committed) - HISTORY_LENGTH]
  /\ HistoryRow(c.texture, 0) # HistoryRow(c.texture, 1)

\* C2: the rows committed, and the texture they are held in, are those of
\* the run q that received the same clock readings and the same steps of the
\* asset load but no gesture, no mute toggle and no answer of the engine.
C2_RowsIndependentOfPlayback ==
  /\ c.committed = q.committed
  /\ c.rows = q.rows
  /\ c.texture = q.texture

\* the two runs differ in everything playback can change, and the latest
\* tick analysed the asset after the audio source had started: the source
\* was started at a clock reading that the latest tick's reading excludes
C2_Witness ==
  /\ c.started = 1 /\ q.started = 0
  /\ c.ctxState = "running" /\ q.ctxState = "suspended"
  /\ ~c.isMuted /\ q.isMuted
  /\ c.listeners = {} /\ q.listeners = userGestureEvents
  /\ c.lastAnalysis = "analysed"
  /\ c.sourceOffset \notin {(now + d) % BufferDuration(c.audioBuffer) : d \in StartDelays}
  /\ \E i \in 1..FREQUENCY_BINS : c.rows[Len(c.rows)][i] > 0

\* C3: once the then-callback of a gesture's resume() has seen the engine
\* running, no gesture listener is attached; and whatever gestures, mute
\* toggles and answers of the engine follow, at most one audio source is
\* started in the life of the mount.
C3_OneStartPerMount ==
  /\ c.unlocked => c.listeners = {}
  /\ c.started <= 1
  /\ c.started = 0 => c.startedBy = {}

\* the source was started by the load, a gesture's resume then saw the
\* engine running and called startAudioSource again, and the mute toggle
\* was used after that
C3_Witness ==
  /\ c.unlocked /\ ~c.unmounted
  /\ c.startedBy = {"load"}
  /\ c.started = 1
  /\ c.listeners = {}
  /\ ~c.isMuted

\* the state of the gesture gate
Gate(s) ==
  IF s.unmounted THEN "Unmounted"
  ELSE IF s.listeners = {} THEN "Running"
  ELSE IF s.isStarted THEN "Unlocking"
  ELSE "Locked"

\* this step is the settling of a gesture's resume() with the given outcome
GestureResumeSettles(outcome) ==
  /\ c.pending.gesture > 0
  /\ \E startOk \in BOOLEAN, d \in StartDelays :
       c' = resumeSettles(c, "gesture", outcome, startOk, now + d)

\* this step is a gesture
GestureStep ==
  /\ c.listeners # {}
  /\ \E startOk \in BOOLEAN, d \in StartDelays :
       c' = resumeContext(c, startOk, now + d)

\* C4: the gate comes to Running only in a step in which the engine is seen
\* running; a resume() that rejects, or resolves with the engine not
\* running, leaves the gate where it was with all four listeners attached;
\* and a gesture at a gate in Unlocking with the engine suspended calls
\* resume() again.
C4_GateOpensOnlyWhenRunning ==
  [][ /\ (Gate(c) \in {"Locked", "Unlocking"} /\ Gate(c') = "Running")
          => c'.ctxRef /\ c'.ctxState = "running"
      /\ (GestureResumeSettles("rejected")
            \/ (GestureResumeSettles("resolved") /\ c.ctxState # "running"))
          => (Gate(c) = "Unlocking" => Gate(c') = "Unlocking" /\ c'.listeners = userGestureEvents)
             /\ c'.listeners = c.listeners
      /\ (Gate(c) = "Unlocking" /\ c.ctxState = "suspended" /\ GestureStep)
          => c'.pending.gesture = c.pending.gesture + 1
    ]_vars

\* a resume() has failed, the gate is in Unlocking with its listeners
\* attached and the resume() of a later gesture is pending
C4_Witness ==
  /\ Gate(c) = "Unlocking"
  /\ "Unable to automatically start audio context:" \in c.log
  /\ c.listeners = userGestureEvents
  /\ c.ctxState = "suspended"
  /\ c.pending.gesture > 0

\* this step is the then-callback of a gesture's resume() that sees the
\* engine running and whose call of startAudioSource fails
StartFailsAfterResume ==
  /\ c.pending.gesture > 0
  /\ \E outcome \in {"running", "resolved"}, d \in StartDelays :
       /\ resumeSettles(c, "gesture", outcome, TRUE, now + d).started # c.started
       /\ c' = resumeSettles(c, "gesture", outcome, FALSE, now + d)

\* C5: when the audio source fails to start in the then-callback of a
\* gesture's resume(), the failure is logged, the gate stays in Unlocking
\* with all four listeners attached, and a gesture can follow.
C5_StartFailureKeepsGate ==
  [][ StartFailsAfterResume =>
        /\ "Failed to start audio source" \in c'.log
        /\ Gate(c') = "Unlocking"
        /\ c'.listeners = userGestureEvents
    ]_vars

\* this step is a render tick that commits a row
TickStep == Len(c'.committed) = Len(c.committed) + 1

\* the analysis window at clock reading t would reach the end of the asset
WindowReachesEnd(b, t) == StartIndex(b, t) + fftSize >= BufferLength(b)

\* the previous-frame buffer as the analyzer reads it: one that is not yet
\* allocated is allocated filled with zeros
PrevFrame(s) ==
  IF s.prevFrequencyData = NoArray THEN Zeros(Len(s.dataArray)) ELSE s.prevFrequencyData

\* C6: a tick whose analysis window would reach the end of the asset leaves
\* the frame and the contents of the previous-frame buffer as they were and
\* reads no sample; and every sample index a tick reads is within
\* 0..length-1 of the asset.
C6_WindowAtEndIsSkipped ==
  [][ (TickStep /\ c.audioBuffer # 0) =>
        /\ c'.readIdx \subseteq 0..(BufferLength(c.audioBuffer) - 1)
        /\ WindowReachesEnd(c.audioBuffer, now') =>
              /\ c'.dataArray = c.dataArray
              /\ c'.prevFrequencyData = PrevFrame(c)
              /\ c'.readIdx = {}
    ]_vars

\* a tick was skipped after earlier ticks had analysed the asset
C6_Witness ==
  /\ c.lastAnalysis = "skipped"
  /\ c.audioBuffer # 0
  /\ \E i \in 1..Len(c.dataArray) : c.dataArray[i] > 0
  /\ \E i \in 1..Len(c.prevFrequencyData) : c.prevFrequencyData[i] > 0

\* what holds of both variants when they unmount with their load in flight:
\* the result of the load is never stored after the unmount, and the
\* height-field variant starts no source after it
LoadResultDiscarded ==
  /\ ~c.assetSetAfterTeardown
  /\ c.unmounted => c.cancelled /\ c.audioBuffer = 0 /\ c.audioSource = 0
  /\ c.loadPc \in {"aborted", "discarded"} => c.unmounted /\ "load" \notin c.startedBy
  /\ ~contour.payloadSetAfterTeardown
  /\ contour.loadPc = "dropped" => contour.unmounted /\ contour.payload = 0
  /\ contour.loadPc # "done" => contour.payload = 0

\* the load of the variant has not come to its end
ContourLoadInFlight == contour.loadPc \in {"fetch", "body", "decode"}

\* C7 as stated: a variant that unmounts with its load in flight aborts its
\* fetch and discards the result.
C7_TeardownAbortsFetch ==
  /\ LoadResultDiscarded
  /\ c.unmounted => c.aborted
  /\ (contour.unmounted /\ (ContourLoadInFlight \/ contour.loadPc = "dropped"))
       => contour.fetchAborted

\* C7: a variant that unmounts with its load in flight discards the result;
\* the height-field variant also aborts its fetch, the contour variant
\* never does and its fetch and decode run to their end.
C7_TeardownDiscardsLoad ==
  /\ LoadResultDiscarded
  /\ c.unmounted => c.aborted
  /\ ~contour.fetchAborted

\* both variants have unmounted with their load in flight and the load has
\* since produced a result, which was discarded
C7_Witness ==
  /\ c.unmounted /\ c.loadPc = "discarded" /\ c.audioBuffer = 0
  /\ contour.unmounted /\ contour.loadPc = "dropped" /\ contour.payload = 0

\* C8: after a failed load the failure is logged, the asset reference is
\* unset, the next tick is scheduled while the component is mounted, and
\* every row committed since has intensity 0 in every bin.
C8_FailedLoadLeavesBlankRows ==
  c.loadPc = "failed" =>
    /\ "Failed to load rainforest audio" \in c.log
    /\ c.audioBuffer = 0
    /\ ~c.unmounted => c.animation = "pending"
    /\ \A n \in (c.failedAt + 1)..Len(c.committed) :
         \A i \in 0..(FREQUENCY_BINS - 1) :
           /\ c.rows[n][i + 1] = 0
           /\ c.committed[n][4 * i + 1] = 0

\* two ticks or more have committed rows since the load failed
C8_Witness ==
  /\ c.loadPc = "failed"
  /\ ~c.unmounted
  /\ Len(c.committed) >= c.failedAt + 2

\* C9: from the mount to the unmount a tick is always scheduled, whatever
\* the state of the asset and of playback; the loop ends only by the
\* cancellation of the unmount.
C9_RenderLoopKeepsRunning ==
  /\ ~c.unmounted => c.animation = "pending"
  /\ c.unmounted => c.animation = "cancelled"

\* a start of the source has failed, the latest of all the ticks skipped its
\* analysis, and the next tick is scheduled
C9_Witness ==
  /\ ~c.unmounted /\ c.animation = "pending"
  /\ "Failed to start audio source" \in c.log
  /\ c.lastAnalysis = "skipped"
  /\ Len(c.committed) = MaxTicks

\* every a in the sequence comes before every b
Precedes(seq, a, b) ==
  \A i, j \in 1..Len(seq) : (seq[i] = a /\ seq[j] = b) => i < j

\* the steps of the teardown that disconnect the nodes of the audio graph
DisconnectSteps == {"disconnectSource", "disconnectGain", "disconnectAnalyser"}

\* the steps every teardown takes
TeardownSteps ==
  {"abortFetch", "removeListeners", "disconnectGain", "disconnectAnalyser",
   "closeEngine", "cancelAnimation", "disconnectObserver", "releaseGpu"}

\* C10 as stated: the teardown cancels the animation, then disconnects the
\* audio nodes, then aborts the fetch, then releases the GPU resources,
\* then closes the engine.
C10_TeardownOrderAsStated ==
  c.unmounted =>
    /\ \A d \in DisconnectSteps : Precedes(c.teardown, "cancelAnimation", d)
    /\ \A d \in DisconnectSteps : Precedes(c.teardown, d, "abortFetch")
    /\ Precedes(c.teardown, "abortFetch", "releaseGpu")
    /\ Precedes(c.teardown, "releaseGpu", "closeEngine")

\* C10: the teardown aborts the fetch, then disconnects the audio nodes,
\* then closes the engine, then cancels the animation, then releases the
\* GPU resources; each step is taken once, and the source is disconnected
\* exactly when one was started.
C10_TeardownOrder ==
  /\ ~c.unmounted => c.teardown = <<>>
  /\ c.unmounted =>
       /\ \A x \in TeardownSteps : \E i \in 1..Len(c.teardown) : c.teardown[i] = x
       /\ (\E i \in 1..Len(c.teardown) : c.teardown[i] = "disconnectSource")
            <=> c.started = 1
       /\ \A i, j \in 1..Len(c.teardown) : c.teardown[i] = c.teardown[j] => i = j
       /\ \A d \in DisconnectSteps : Precedes(c.teardown, "abortFetch", d)
       /\ \A d \in DisconnectSteps : Precedes(c.teardown, d, "closeEngine")
       /\ Precedes(c.teardown, "closeEngine", "cancelAnimation")
       /\ Precedes(c.teardown, "cancelAnimation", "releaseGpu")

\* an unmount with the source playing and the load of the asset done
C10_Witness ==
  /\ c.unmounted
  /\ c.started = 1
  /\ Len(c.teardown) = 9

\* the state of the program: the state without the record of the teardown
\* steps taken
ProgramState(s) == [s EXCEPT !.teardown = <<>>]

\* how often a step is in the record of the teardown
TimesTaken(s, step) == Cardinality({i \in 1..Len(s.teardown) : s.teardown[i] = step})

\* C11: from every state, running the cleanup of the audio effect, the
\* cleanup of the scene effect or both a second time changes no state of
\* the program and logs no error, and the second run does not close again
\* the engine that the first run closed.
C11_TeardownIdempotent ==
  LET a == audioCleanup(c)
      g == sceneCleanup(c)
      u == unmount(c)
  IN  /\ ProgramState(audioCleanup(a)) = ProgramState(a)
      /\ ProgramState(sceneCleanup(g)) = ProgramState(g)
      /\ ProgramState(unmount(u)) = ProgramState(u)
      /\ TimesTaken(audioCleanup(a), "closeEngine") = TimesTaken(a, "closeEngine")
      /\ TimesTaken(unmount(u), "closeEngine") = 1

\* a mounted component with the source playing, a tick scheduled and a
\* resume() pending: the first run of each cleanup releases something
C11_Witness ==
  /\ ~c.unmounted /\ c.audioSource # 0 /\ c.ctxState = "running"
  /\ c.animation = "pending" /\ PendingCount(c) > 0
  /\ ProgramState(audioCleanup(c)) # ProgramState(c)
  /\ ProgramState(sceneCleanup(c)) # ProgramState(c)

\* bin k of the frame, counted from 0, lies below the low-frequency cutoff:
\* k is less than LOW_FREQUENCY_CUTOFF_HZ / (sampleRate / fftSize)
BelowCutoff(b, k) == k * Assets[b].sampleRate < LOW_FREQUENCY_CUTOFF_HZ * fftSize

\* the frame and the previous-frame buffer of a pipeline are within range:
\* the frame has room for FREQUENCY_BINS values, only its first
\* FREQUENCY_BINS entries are ever written, every entry is within 0..255 and
\* every entry of the previous-frame buffer is within 0..255 (in hundredths)
FrameInRange(s) ==
  /\ s.dataArray # NoArray =>
       /\ Len(s.dataArray) >= FREQUENCY_BINS
       /\ \A i \in 1..Len(s.dataArray) : s.dataArray[i] \in 0..255
       /\ \A i \in (FREQUENCY_BINS + 1)..Len(s.dataArray) : s.dataArray[i] = 0
  /\ s.prevFrequencyData # NoArray =>
       \A i \in 1..Len(s.prevFrequencyData) : s.prevFrequencyData[i] \in 0..25500

\* every bin of a pipeline below the cutoff is 0, in the frame and in the
\* previous-frame buffer
ZeroBelowCutoff(s) ==
  (s.audioBuffer # 0 /\ s.dataArray # NoArray) =>
    \A k \in 0..(FREQUENCY_BINS - 1) :
      BelowCutoff(s.audioBuffer, k) =>
        /\ s.dataArray[k + 1] = 0
        /\ s.prevFrequencyData # NoArray => s.prevFrequencyData[k + 1] = 0

\* C12 as stated: in the component and in its 64-bin variant the frame and
\* the previous-frame buffer are within range and every bin below the
\* low-frequency cutoff is 0.
C12_FrameInRangeZeroBelowCutoff ==
  /\ FrameInRange(c) /\ ZeroBelowCutoff(c)
  /\ FrameInRange(variant) /\ ZeroBelowCutoff(variant)

\* C12: in the component and in its 64-bin variant the frame and the
\* previous-frame buffer are within range after any sequence of analyzer
\* calls; in the component every bin below the low-frequency cutoff is 0;
\* the variant has no cutoff.
C12_FrameInRange ==
  /\ FrameInRange(c) /\ ZeroBelowCutoff(c)
  /\ FrameInRange(variant)

\* the analyzer ran several times, the last call was skipped, the frame it
\* kept has a bin above the cutoff with energy and more than one bin below
\* the cutoff; the same calls were made in the variant, whose frame has
\* energy in a bin below the cutoff
C12_Witness ==
  /\ c.audioBuffer # 0 /\ c.dataArray # NoArray
  /\ c.lastAnalysis = "skipped"
  /\ Len(c.committed) = MaxTicks
  /\ BelowCutoff(c.audioBuffer, 1)
  /\ \E i \in 1..FREQUENCY_BINS : c.dataArray[i] > 0 /\ c.prevFrequencyData[i] > 100
  /\ variant.lastAnalysis = "skipped"
  /\ \E k \in 0..(FREQUENCY_BINS - 1) :
       BelowCutoff(variant.audioBuffer, k) /\ variant.dataArray[k + 1] > 0

\* frames of silent, half-scale and full-scale bins
ExtremeFrames == [1..FREQUENCY_BINS -> {0, 128, 255}]

\* the spatial and the temporal filter keep the unit range for silent,
\* half-scale and full-scale bins over a previous value of 0, 1/2 or 1
FiltersKeepUnitRange ==
  \A frame \in ExtremeFrames : \A i \in 0..(FREQUENCY_BINS - 1) :
    \A prev \in {0, 50, 100} : \A hasPrevRow \in BOOLEAN :
      FinalValue(hasPrevRow, prev, BlendedFreq(NormalizedBins(frame), i)) \in 0..100

\* C13: after any number of ticks every value of every smoothed row committed
\* to the history, and of the row kept for the next tick, lies in [0,1]
\* (0..100 hundredths); the filters keep that range for the extreme frames.
C13_SmoothedRowInUnitRange ==
  /\ FiltersKeepUnitRange
  /\ \A n \in 1..Len(c.rows) :
       /\ Len(c.rows[n]) = FREQUENCY_BINS
       /\ \A i \in 1..FREQUENCY_BINS : c.rows[n][i] \in 0..100
  /\ \A i \in 1..Len(c.smoothedRow) : c.smoothedRow[i] \in 0..100

\* every tick committed a row, the temporal filter mixed rows with energy and
\* the last row differs from the one before it
C13_Witness ==
  /\ Len(c.rows) = MaxTicks
  /\ c.rows[MaxTicks] # c.rows[MaxTicks - 1]
  /\ \E i \in 1..FREQUENCY_BINS :
       c.rows[MaxTicks - 1][i] > 0 /\ c.rows[MaxTicks][i] > 0

\* the offset is time mod duration for every reading and every duration of
\* the model: within [0, D), a whole number of durations away from the
\* reading, the same one duration later; and the stated readings with
\* D = 10 s, in milliseconds
VirtualOffsetIsModulo ==
  /\ \A D \in 1..MaxClock : \A t \in 0..(3 * MaxClock) :
       /\ VirtualOffset(t, D) \in 0..(D - 1)
       /\ \E n \in 0..t : t = n * D + VirtualOffset(t, D)
       /\ VirtualOffset(t + D, D) = VirtualOffset(t, D)
  /\ VirtualOffset(12000, 10000) = 2000
  /\ VirtualOffset(9999, 10000) = 9999
  /\ VirtualOffset(10001, 10000) = 1

\* C14: the virtual clock offset is now mod D for every reading now >= 0 and
\* every duration D > 0: it lies in [0, D), differs from now by a whole number
\* of durations, and is the same one duration later; with D = 10 s a reading
\* of 12.0 s gives 2.0 s and readings of 9.999 s and 10.001 s give 9.999 s
\* and 0.001 s; the window the analyzer read starts at that offset.
C14_VirtualClockOffset ==
  /\ VirtualOffsetIsModulo
  /\ (c.audioBuffer # 0 /\ c.lastAnalysis = "analysed" /\ c.readIdx # {}) =>
       \E offset \in 0..(BufferDuration(c.audioBuffer) - 1) :
         /\ \E n \in 0..now : now = n * BufferDuration(c.audioBuffer) + offset
         /\ c.readIdx =
              {(offset * Assets[c.audioBuffer].sampleRate) \div MS_PER_SECOND + i :
                 i \in 0..(fftSize - 1)}

\* the analyzer read a window at a clock reading past the end of the asset
C14_Witness ==
  /\ c.audioBuffer # 0
  /\ c.lastAnalysis = "analysed" /\ c.readIdx # {}
  /\ now >= BufferDuration(c.audioBuffer)

\* a handler starts the audio source and reads the clock at t
StartedAt(t) ==
  /\ c'.started = c.started + 1
  /\ \/ \E ok \in BOOLEAN, asset \in AssetIds : c' = loadAfterDecode(c, ok, asset, TRUE, t)
     \/ c' = resumeContext(c, TRUE, t)
     \/ \E kind \in {"gesture", "mute"}, outcome \in {"running", "resolved", "rejected"} :
          c' = resumeSettles(c, kind, outcome, TRUE, t)

\* C15: whenever the audio source is started, the offset handed to it is the
\* clock reading of that moment mod the asset's duration, the value the
\* analyzer computes for that reading, so the first sample played is the
\* first sample the analyzer would read.
C15_StartOffsetIsVirtualOffset ==
  [][\A d \in StartDelays :
       StartedAt(now + d) =>
         /\ c'.sourceOffset = VirtualOffset(now + d, BufferDuration(c'.audioBuffer))
         /\ (c'.sourceOffset * Assets[c'.audioBuffer].sampleRate) \div MS_PER_SECOND
              = StartIndex(c'.audioBuffer, now + d)]_vars

\* the source was started past the end of the asset, at an offset that is
\* not the beginning
C15_Witness ==
  /\ c.started = 1 /\ c.audioSource # 0
  /\ c.sourceOffset > 0
  /\ now >= BufferDuration(c.audioBuffer)
  /\ c.sourceOffset \in {VirtualOffset(now + d, BufferDuration(c.audioBuffer)) : d \in StartDelays}

\* the height-field analyzer, called with an asset at clock reading t, reads
\* the window that starts at the virtual clock's offset or reads nothing
HeightFieldPositionFromClock ==
  \A b \in AssetIds : \A t \in 0..MaxClock :
    LET s == computeFrequencyData([Mounted("suspended") EXCEPT !.audioBuffer = b], t)
    IN  s.readIdx \in
          { {},
            {(VirtualOffset(t, BufferDuration(b)) * Assets[b].sampleRate) \div MS_PER_SECOND + i :
               i \in 0..(fftSize - 1)} }

\* the contour variant runs update(): its timer is set anew
ContourUpdates == contour'.timer # contour.timer /\ contour'.timer >= 0

\* the start of the window an update of the contour variant extracts: its
\* counter, which the window effect starts at 0
ContourPosition ==
  IF contour.windowEffect = "active" THEN contour.offsetSamples ELSE 0

\* C16 as stated: in every back-end the position analysed on each update is
\* the one the virtual clock gives, now mod duration, and no back-end keeps a
\* position of its own.
C16_PositionFromClockOnly ==
  [][/\ HeightFieldPositionFromClock
     /\ ContourUpdates => ContourPosition = StartIndex(contour'.payload, now')]_vars

\* C16: the height-field analyzer derives the position it analyses from the
\* virtual clock and from nothing else; the contour variant keeps a position
\* of its own: each update analyses the window at its counter, whatever the
\* clock reads, then advances the counter by stepSamples, or sets it to 0
\* when the next window would reach the end of the samples.
C16_PositionPerBackEnd ==
  [][/\ HeightFieldPositionFromClock
     /\ ContourUpdates =>
          LET p == contour'.payload
          IN  /\ contour'.queued.surfaces =
                   Update(extractSurfacesForWindow(p, ContourPosition, WindowSamples(p)))
              /\ contour'.offsetSamples \in {0, ContourPosition + StepSamples(p)}
              /\ contour'.offsetSamples = 0 <=>
                   ContourPosition + StepSamples(p) + WindowSamples(p) >= BufferLength(p)]_vars

\* an update of the contour variant has just analysed the window at a
\* position past the start that is not the one the virtual clock gives
C16_Witness ==
  /\ contour.windowEffect = "active"
  /\ contour.timer = now + FRAME_INTERVAL_MS
  /\ contour.queued.surfaces.set
  /\ \E position \in 1..BufferLength(contour.payload) :
       /\ position # StartIndex(contour.payload, now)
       /\ contour.queued.surfaces.value =
            extractSurfacesForWindow(contour.payload, position, WindowSamples(contour.payload))
       /\ contour.queued.surfaces.value #
            extractSurfacesForWindow(contour.payload, StartIndex(contour.payload, now),
                                     WindowSamples(contour.payload))

\* |x|
Abs(x) == IF x < 0 THEN 0 - x ELSE x

\* the value of the byte v on the scale of the smoothed row, in hundredths
RowValueOf(v) == NormalizedBins(ConstantFrame(v))[1]

\* C17 as stated: when a frame whose bins all hold v is pushed on a tick
\* that has a previous row, the distance of every bin of the committed row
\* to v shrinks by the temporal coefficient (up to the rounding of one
\* hundredth), so that the row converges to v.
C17_ConstantFrameConvergesToFrame ==
  [][\A v \in FrameValues :
       (/\ c.hasSmoothedRow
        /\ c' = renderScene([c EXCEPT !.dataArray = ConstantFrame(v)], now)) =>
         \A i \in 1..FREQUENCY_BINS :
           Abs(c'.smoothedRow[i] - RowValueOf(v)) * 100
             <= TEMPORAL_SMOOTHING * Abs(c.smoothedRow[i] - RowValueOf(v)) + 100]_vars

\* a layer set of one cell
OneCell(value) == << << <<value>> >> >>

\* blending [0] into [10] at progress 0, 0.5 and 1 gives 0, 5 and 10; a
\* progress outside [0,1] is clamped; with no start set the result is the
\* destination
BlendIsLinear ==
  /\ blendSurfaces(OneCell(0), OneCell(10), 0) = OneCell(0)
  /\ blendSurfaces(OneCell(0), OneCell(10), 50) = OneCell(5)
  /\ blendSurfaces(OneCell(0), OneCell(10), 100) = OneCell(10)
  /\ blendSurfaces(OneCell(0), OneCell(10), 0 - 50) = OneCell(0)
  /\ blendSurfaces(OneCell(0), OneCell(10), 150) = OneCell(10)
  /\ blendSurfaces(<<>>, OneCell(10), 50) = OneCell(10)

\* an animation frame callback of the blend runs with a blend in flight
BlendFrame ==
  /\ contour.frames > 0
  /\ contour.transition # NoTransition
  /\ contour' = contourStep(contour, now')

\* C18: a frame of the blend displays, in every cell, from + (to - from) * t
\* with t the progress clamped to [0,1] (cells and t in hundredths); with
\* progress >= 1 it displays the destination set itself and makes it the
\* current set; [0] blended into [10] at 0, 0.5 and 1 gives 0, 5 and 10.
C18_BlendIsLinearAndEndsAtDestination ==
  [][/\ BlendIsLinear
     /\ BlendFrame =>
          LET from == contour.transition.from
              to == contour.transition.to
              elapsed == now' - contour.transition.start
              t == Min(100, Max(0, (elapsed * 100) \div BLEND_DURATION_MS))
              displayed == contour'.queued.displaySurfaces
          IN  /\ displayed.set
              /\ Len(displayed.value) = Len(to)
              /\ \A n \in 1..Len(to) :
                   /\ Len(displayed.value[n]) = Len(to[n])
                   /\ \A m \in 1..Len(to[n]) :
                        /\ Len(displayed.value[n][m]) = Len(to[n][m])
                        /\ \A b \in 1..Len(to[n][m]) :
                             displayed.value[n][m][b] =
                               from[n][m][b] + ((to[n][m][b] - from[n][m][b]) * t) \div 100
              /\ elapsed >= BLEND_DURATION_MS =>
                   /\ displayed.value = to
                   /\ contour'.displayRef = to
                   /\ contour'.transition = NoTransition]_vars

\* a frame in the middle of a blend between two different layer sets has
\* displayed a set that is neither of them
C18_Witness ==
  /\ contour.transition # NoTransition
  /\ contour.transition.from # contour.transition.to
  /\ contour.queued.displaySurfaces.set
  /\ BlendProgress(contour.transition, now) \in 1..99
  /\ contour.queued.displaySurfaces.value =
       blendSurfaces(contour.transition.from, contour.transition.to,
                     BlendProgress(contour.transition, now))
  /\ contour.queued.displaySurfaces.value
       \notin {contour.transition.from, contour.transition.to}

\* C19: at most one animation frame callback of the blend is pending at any
\* time, and the ref holds its handle exactly then; an update that arrives
\* while a callback is pending makes its layer set the destination of the
\* blend, restarts the blend's clock and asks for no further callback.
C19_OneBlendTask ==
  [][/\ contour.frames <= 1 /\ contour'.frames <= 1
     /\ contour'.rafRef <=> contour'.frames = 1
     /\ (ContourUpdates /\ contour.frames = 1) =>
          /\ contour'.frames = 1
          /\ contour'.queued.surfaces.set
          /\ contour'.transition.to = contour'.queued.surfaces.value
          /\ contour'.transition.start = now']_vars

\* an update has arrived before the blend of the update before it can have
\* ended, and one callback is pending
C19_Witness ==
  /\ contour.windowEffect = "active"
  /\ now \in FRAME_INTERVAL_MS..(BLEND_DURATION_MS - 1)
  /\ contour.timer = now + FRAME_INTERVAL_MS
  /\ contour.transition # NoTransition
  /\ contour.transition.start = now
  /\ contour.transition.from # contour.transition.to
  /\ contour.frames = 1 /\ contour.rafRef

\* the muted flag changes: the mute button was clicked
MuteToggles == c'.isMuted # c.isMuted

\* C20: the component mounts muted with gain 0; a click on the mute button
\* flips the flag and sets the target of the gain's ramp to 0 when muting and
\* to 1 when unmuting, without writing the gain's value; it asks the engine
\* to resume only when unmuting with the engine suspended, and the source is
\* started from the mute button's path only when such a resume settles; the
\* click itself starts nothing, and muting asks for no resume.
C20_MuteToggle ==
  /\ c.isMuted /\ c.gainValue = 0 /\ c.gainTarget = 0
  /\ [][/\ MuteToggles =>
             /\ c'.gainTarget = IF c'.isMuted THEN 0 ELSE 1
             /\ c'.gainValue = c.gainValue
             /\ c'.ctxState = c.ctxState
             /\ c'.started = c.started /\ c'.audioSource = c.audioSource
             /\ c'.pending.gesture = c.pending.gesture
             /\ c'.pending.mute =
                  IF ~c'.isMuted /\ c.ctxState = "suspended"
                    THEN c.pending.mute + 1 ELSE c.pending.mute
        /\ c'.pending.mute > c.pending.mute =>
             MuteToggles /\ ~c'.isMuted /\ c.ctxState = "suspended"
        /\ ("mute" \in c'.startedBy /\ "mute" \notin c.startedBy) =>
             /\ c.pending.mute > 0 /\ c'.pending.mute = c.pending.mute - 1
             /\ c'.started = c.started + 1]_vars

\* the sound was unmuted with the engine suspended, the resume settled and
\* its callback started the source; the gain's value is still as it was
C20_Witness ==
  /\ ~c.isMuted /\ c.gainTarget = 1 /\ c.gainValue = 0
  /\ "mute" \in c.startedBy /\ c.started = 1
  /\ c.pending.mute = 0

\* where a label is placed when the camera has the extents of a container of
\* w by h: the horizontal extents are -+CameraRight, the vertical ones
\* +-FRUSTUM_SIZE / 2
ExpectedPlacement(axis, w, h) ==
  LET r == CameraRight(w, h)
      px(x) == ((x + r) * w) \div (2 * r)
      py(y) == ((FRUSTUM_SIZE \div 2 - y) * h) \div FRUSTUM_SIZE
      dx == px(axis.x + axis.stepX) - px(axis.x)
      dy == py(axis.y + axis.stepY) - py(axis.y)
  IN  [ x |-> px(axis.x), y |-> py(axis.y),
        dx |-> IF dx < 0 THEN 0 - dx ELSE dx,
        dy |-> IF dx < 0 THEN 0 - dy ELSE dy,
        opacity |-> 1 ]

\* the camera has the extents of the container's current size
CameraFitsContainer(v) ==
  /\ v.right = (IF v.width = 0 \/ v.height = 0 THEN FRUSTUM_SIZE \div 2
                ELSE (FRUSTUM_SIZE * v.width) \div (2 * v.height))
  /\ v.left = 0 - v.right
  /\ v.top = FRUSTUM_SIZE \div 2
  /\ v.bottom = 0 - FRUSTUM_SIZE \div 2
  /\ v.rendererSize = <<v.width, v.height>>

\* the three labels are where the container's current size puts them
LabelsFitContainer(v) ==
  \A l \in {"time", "freq", "amp"} :
    v.labels[l] = ExpectedPlacement(LabelAnchors[l], v.width, v.height)

KernelSum == SumTo(FREQUENCY_SMOOTH_KERNEL, Len(FREQUENCY_SMOOTH_KERNEL))

\* C22 as stated: the taps of the spatial kernel sum to 1, so that on a tick
\* that pushes a frame whose bins all hold v the spatial filter gives v at
\* every bin (up to the rounding of one hundredth).
C22_KernelIsNormalized ==
  [][\A v \in FrameValues :
       (c' = renderScene([c EXCEPT !.dataArray = ConstantFrame(v)], now)) =>
         /\ KernelSum = 100
         /\ \A i \in 1..FREQUENCY_BINS :
              Abs(BlendedFreq(c'.normalizedBins, i - 1) - RowValueOf(v)) <= 1]_vars

\* the taps that land on bin i (from 0) of a frame with an impulse at i:
\* the centre tap, and at the first or the last bin the taps of the outer side
OuterSideTaps(i) ==
  LET kernelRadius == Len(FREQUENCY_SMOOTH_KERNEL) \div 2
  IN  {kernelRadius + 1}
        \cup (IF i = 0 THEN 1..kernelRadius ELSE {})
        \cup (IF i = FREQUENCY_BINS - 1
                THEN (kernelRadius + 2)..Len(FREQUENCY_SMOOTH_KERNEL) ELSE {})

RECURSIVE SumOver(_, _)
SumOver(f, S) ==
  IF S = {} THEN 0
  ELSE LET k == CHOOSE x \in S : TRUE IN f[k] + SumOver(f, S \ {k})

\* C23: every tap of the spatial kernel reads a bin in 0..FREQUENCY_BINS - 1,
\* and on a tick that pushes an impulse at bin i the spatially filtered value
\* of bin i is raw * (1 - mix) + raw * kernelSum * mix, where kernelSum is the
\* centre tap for an interior bin and the centre tap plus the taps of the
\* outer side for the first and the last bin; the row gets that value
\* through the temporal filter.
C23_ClampToEdge ==
  [][\A i \in 0..(FREQUENCY_BINS - 1), v \in ImpulseValues :
       (c' = renderScene([c EXCEPT !.dataArray = ImpulseFrame(i, v)], now)) =>
         LET raw == Pow07(v)
             kernelSum == SumOver(FREQUENCY_SMOOTH_KERNEL, OuterSideTaps(i))
             blended == (raw * (100 - FREQUENCY_SMOOTH_MIX) * 100
                           + raw * kernelSum * FREQUENCY_SMOOTH_MIX) \div 10000
         IN  /\ \A b \in 0..(FREQUENCY_BINS - 1), k \in 0..(Len(FREQUENCY_SMOOTH_KERNEL) - 1) :
                  TapIndex(b, k) \in 0..(FREQUENCY_BINS - 1)
             /\ c'.normalizedBins[i + 1] = raw
             /\ BlendedFreq(c'.normalizedBins, i) = blended
             /\ c'.smoothedRow[i + 1]
                  = (IF c.hasSmoothedRow
                       THEN (c.smoothedRow[i + 1] * TEMPORAL_SMOOTHING
                               + blended * (100 - TEMPORAL_SMOOTHING)) \div 100
                       ELSE blended)]_vars

\* a tick has pushed an impulse at the first bin after one at an interior bin
C23_Witness ==
  /\ FREQUENCY_BINS >= 3
  /\ Len(c.rows) >= 3
  /\ c.normalizedBins = [j \in 1..FREQUENCY_BINS |-> IF j = 1 THEN 100 ELSE 0]
  /\ c.smoothedRow[1] > 0
  /\ c.smoothedRow[2] > 0

\* values of a row, in hundredths
RowValues == {0, 8, 27, 50, 73, 100}

\* without a previous row the filter returns the new value; with one it
\* returns prev * k + new * (1 - k)
TemporalFilterBypassesFirst ==
  \A prev \in RowValues, new \in RowValues :
    /\ FinalValue(FALSE, prev, new) = new
    /\ FinalValue(TRUE, prev, new)
         = (prev * TEMPORAL_SMOOTHING + new * (100 - TEMPORAL_SMOOTHING)) \div 100

\* C24: the first committed row is the spatially filtered frame of its tick
\* (the temporal filter is bypassed), and on every later tick each bin of the
\* committed row is prev * k + new * (1 - k) with prev that bin of the row
\* committed before, new the spatially filtered value of the tick and k the
\* temporal smoothing coefficient.
C24_TemporalFilter ==
  [][ /\ TemporalFilterBypassesFirst
      /\ Len(c.rows) >= 1
      /\ \A i \in 1..FREQUENCY_BINS :
           c.rows[1][i] = BlendedFreq(NormalizedBins(Zeros(fftSize \div 2)), i - 1)
      /\ (Len(c'.rows) = Len(c.rows) + 1) =>
           \A i \in 1..FREQUENCY_BINS :
             c'.rows[Len(c'.rows)][i]
               = (c.rows[Len(c.rows)][i] * TEMPORAL_SMOOTHING
                    + BlendedFreq(c'.normalizedBins, i - 1) * (100 - TEMPORAL_SMOOTHING))
                   \div 100 ]_vars

\* three rows are committed: the first one unfiltered, the two later ones
\* blends of different frames with their previous rows
C24_Witness ==
  /\ Len(c.rows) >= 3
  /\ c.rows[2][1] > 0
  /\ c.rows[3][1] > c.rows[2][1]
  /\ c.rows[3][1] < BlendedFreq(c.normalizedBins, 0)

\* the four bytes at a column of a row of the history (both from 0)
TexturePixel(texture, row, column) ==
  SubSeq(texture, row * ROW_BYTE_SIZE + column * 4 + 1,
                  row * ROW_BYTE_SIZE + column * 4 + 4)

\* the shift has moved every row one row further, column by column
RowsMovedWhole(before, after) ==
  \A row \in 1..(HISTORY_LENGTH - 1), column \in 0..(FREQUENCY_BINS - 1) :
    TexturePixel(after, row, column) = TexturePixel(before, row - 1, column)

\* the height field stores bin i of the committed row at column
\* FREQUENCY_BINS - 1 - i of row 0, and every row of its history holds the
\* row committed that many ticks ago in the same columns
HeightFieldFlipsAtWrite ==
  (Len(c'.rows) = Len(c.rows) + 1) =>
    /\ \A i \in 0..(FREQUENCY_BINS - 1) :
         TexturePixel(c'.texture, 0, FREQUENCY_BINS - 1 - i) = Pixel(c'.smoothedRow[i + 1])
    /\ RowsMovedWhole(c.texture, c'.texture)
    /\ \A row \in 0..(HISTORY_LENGTH - 1), i \in 0..(FREQUENCY_BINS - 1) :
         row < Len(c'.rows) =>
           TexturePixel(c'.texture, row, FREQUENCY_BINS - 1 - i)
             = Pixel(c'.rows[Len(c'.rows) - row][i + 1])

\* the value the 64-bin variant writes for bin i (from 0) of its frame
VariantPixel(i) == Pixel(Pow07(variant'.dataArray[i + 1]))

\* C25 as stated, for both components it cites: on every tick bin i of the
\* committed row is stored at column FREQUENCY_BINS - 1 - i of row 0 and
\* the shift moves whole rows.
C25_FlipAtWriteTime ==
  [][ /\ HeightFieldFlipsAtWrite
      /\ (Len(c'.rows) = Len(c.rows) + 1) =>
           /\ \A i \in 0..(FREQUENCY_BINS - 1) :
                TexturePixel(variant'.texture, 0, FREQUENCY_BINS - 1 - i) = VariantPixel(i)
           /\ RowsMovedWhole(variant.texture, variant'.texture) ]_vars

\* C25: on every tick the height field stores bin i of the committed row at
\* column FREQUENCY_BINS - 1 - i of row 0, the 64-bin variant stores bin i
\* at column i, and in both the shift moves whole rows without changing the
\* column of any value: in each component the lowest-frequency bin is at one
\* edge in every row of the history.
C25_FlipPerBackEnd ==
  [][ /\ HeightFieldFlipsAtWrite
      /\ (Len(c'.rows) = Len(c.rows) + 1) =>
           /\ \A i \in 0..(FREQUENCY_BINS - 1) :
                TexturePixel(variant'.texture, 0, i) = VariantPixel(i)
           /\ RowsMovedWhole(variant.texture, variant'.texture) ]_vars

\* rows whose first and last bins differ are in the history of both
\* components, two rows deep
C25_Witness ==
  /\ Len(c.rows) >= 3
  /\ c.texture # NoArray
  /\ TexturePixel(c.texture, 1, 0) # TexturePixel(c.texture, 1, FREQUENCY_BINS - 1)
  /\ TexturePixel(c.texture, 0, 0) # TexturePixel(c.texture, 0, FREQUENCY_BINS - 1)
  /\ TexturePixel(variant.texture, 1, 0) # TexturePixel(variant.texture, 1, FREQUENCY_BINS - 1)

\* a blend is in flight
BlendInFlight == contour.rafRef /\ contour.transition # NoTransition

\* the blend task has ended itself at progress 1: the destination is
\* displayed and no animation callback is pending
BlendEnded ==
  /\ contour.transition = NoTransition
  /\ ~contour.rafRef
  /\ contour.frames = 0
  /\ contour.displayRef = contour.surfaces \/ contour.queued.surfaces.set

\* C26 as stated: with the window updates arriving on the analysis timer,
\* every blend that is started eventually reaches progress 1, where the
\* destination is displayed and the blend task has ended with no animation
\* callback pending (or the component has unmounted).
C26_EveryBlendCompletes ==
  BlendInFlight ~> (BlendEnded \/ contour.unmounted)

\* the asset is loaded and the then-callback of a gesture's resume has found
\* the engine running, in a mounted component
LoadedAndUnlocked == ~c.unmounted /\ c.audioBuffer # 0 /\ c.unlocked

\* a source plays, or the engine has refused to create or start one
SourceStarted ==
  c.audioSource # 0 \/ "Failed to start audio source" \in c.log

C28_NothingAfterTeardown ==
  [][c.unmounted =>
       /\ c'.started = c.started
       /\ c'.audioSource = 0
       /\ ~c'.audioReady
       /\ c'.committed = c.committed
       /\ c'.rows = c.rows
       /\ c'.texture = c.texture]_vars

\* a resume() has settled after the teardown of a component that had
\* started to play
C28_Witness ==
  /\ c.unmounted
  /\ c.resumedAfterTeardown
  /\ PendingCount(c) = 0
  /\ c.started > 0
  /\ Len(c.committed) >= 2

\* C29: every window the contour variant extracts lies within the samples,
\* 0 <= offsetSamples and offsetSamples + windowSamples <= length with
\* windowSamples > 0, so that no window is truncated or empty; after each
\* update the start has advanced by stepSamples, or is back at 0 as soon as
\* the window after it would reach the end of the samples.
C29_WindowWithinSamples ==
  [][ContourUpdates =>
        LET p == contour'.payload
            windowSamples == WindowSamples(p)
            stepSamples == StepSamples(p)
        IN  /\ windowSamples > 0
            /\ stepSamples > 0
            /\ 0 <= ContourPosition
            /\ ContourPosition + windowSamples <= BufferLength(p)
            /\ Min(BufferLength(p), ContourPosition + windowSamples) - ContourPosition
                 = windowSamples
            /\ contour'.queued.surfaces.set
            /\ Len(contour'.queued.surfaces.value) = SURFACE_COUNT
            /\ 0 <= contour'.offsetSamples
            /\ contour'.offsetSamples + windowSamples <= BufferLength(p)
            /\ IF ContourPosition + stepSamples + windowSamples >= BufferLength(p)
                 THEN contour'.offsetSamples = 0
                 ELSE contour'.offsetSamples = ContourPosition + stepSamples]_vars

\* an update has just extracted the whole window one step past the start
\* and has set the start back to 0
C29_Witness ==
  /\ contour.windowEffect = "active"
  /\ contour.payload # 0
  /\ contour.offsetSamples = 0
  /\ contour.timer = now + FRAME_INTERVAL_MS
  /\ StepSamples(contour.payload) + WindowSamples(contour.payload)
       < BufferLength(contour.payload)
  /\ contour.queued.surfaces
       = Update(extractSurfacesForWindow(contour.payload, StepSamples(contour.payload),
                                         WindowSamples(contour.payload)))

\* the animation frame callback runs: the clock of the ticks moves on
RenderTick == now' # now

\* C30: every render tick of the mounted component commits exactly one row:
\* the history shifts by one row and row 0 is the new row, also when the
\* analyzer skipped its update and before the asset is loaded; on such a
\* tick the frame is the one retained from before and the new row is that
\* frame taken through the spatial and the temporal filter.
C30_EveryTickCommitsOneRow ==
  [][RenderTick =>
       /\ ~c.unmounted
       /\ Len(c'.committed) = Len(c.committed) + 1
       /\ Len(c'.rows) = Len(c.rows) + 1
       /\ SubSeq(c'.committed, 1, Len(c.committed)) = c.committed
       /\ RowsMovedWhole(c.texture, c'.texture)
       /\ c'.committed[Len(c'.committed)] = SubSeq(c'.texture, 1, ROW_BYTE_SIZE)
       /\ c'.lastAnalysis \in {"analysed", "skipped", "noasset"}
       /\ (c'.lastAnalysis = "noasset") <=> (c.audioBuffer = 0)
       /\ (c'.lastAnalysis # "analysed") =>
            /\ c'.dataArray = c.dataArray
            /\ \A i \in 1..FREQUENCY_BINS :
                 c'.rows[Len(c'.rows)][i]
                   = FinalValue(c.hasSmoothedRow, c.smoothedRow[i],
                                BlendedFreq(NormalizedBins(c.dataArray), i - 1))]_vars

\* the latest tick skipped its analysis and committed a row that the filters
\* moved on from the row before, towards the retained frame
C30_Witness ==
  /\ ~c.unmounted
  /\ c.lastAnalysis = "skipped"
  /\ Len(c.rows) >= 3
  /\ c.rows[Len(c.rows)] # c.rows[Len(c.rows) - 1]
  /\ \E i \in 1..FREQUENCY_BINS : c.dataArray[i] > 0

====
